---- MODULE Spec2Model ----
(***************************************************************************)
(* A model of the autotile renderer: the autotile resolver                 *)
(* (get_autotile_index), the adjacency computation (get_neighboring_edges), *)
(* the texture atlas builder and its lookups (TileManagerBuilder /          *)
(* TileManager), the animation offsets, the tile map (TileMap), the shader  *)
(* reload of the background and the rectangle iterator (RectangleIter).     *)
(* Each part has its own specification over the one list of variables.      *)
(***************************************************************************)
EXTENDS Integers, Sequences, FiniteSets, TLC

VARIABLES
    edges,            \* get_autotile_index: the adjacency mask of the last call
    quadrant,         \* get_autotile_index: the quadrant of the last call
    autotile_index,   \* << >> before any call, <<result>> after a call
    board,            \* the Board handed to get_neighboring_edges
    pos,              \* the Point handed to get_neighboring_edges
    res,              \* << >> before the call, <<mask>> after it
    locations,        \* TileManagerBuilder.locations: TileIndex -> image key
    frames,           \* TileManagerBuilder.frames: image key -> AtlasFrame
    packers,          \* TileManagerBuilder.packers: the pages, in creation order
    status,           \* "Building", or "Panicked" once an unwrap has failed
    manager,          \* << >>, or <<the TileManager of the last build()>>
    last,             \* << >>, or <<the last image packed and the pages it met>>
    calls,            \* the number of calls made so far
    registered,       \* the image keys named by the add_tile calls that returned
    query,            \* << >>, or <<the last TileManager lookup and its outcome>>
    failed,           \* << >>, or <<the key and the image add_image panicked on>>
    anim_tile,        \* get_texture_offset: the AtlasTile looked up
    anim_msecs,       \* the milliseconds elapsed, handed to get_texture_offset
    anim_offset,      \* << >>, or <<the outcome of get_texture_offset at anim_msecs>>
    map,              \* TileMap.map: the (DrawTile, Point) pairs, in push order
    tile_manager,     \* TileMap.tile_manager
    given,            \* << >>, or <<the board handed to the last update>>
    instances,        \* << >>, or <<the outcome of the last render>>
    vert_file,        \* what lies at data/bg.vert
    frag_file,        \* what lies at data/bg.frag
    program,          \* Background.program: the sources it was built from
    bg_status,        \* "Running", or "Panicked" once an unwrap has failed
    reloaded,         \* << >>, or <<the outcome of the last refresh_shaders>>
    iter,             \* the point iterator (RectangleIter, BorderIter or SquareIter)
    overflow_checks,  \* whether the build panics on integer overflow (debug) or wraps
    yielded,          \* the points next has returned so far, in order
    returned,         \* << >>, or <<what the last call of next came to>>
    cmp_lhs,          \* the Point on the left of the comparison
    cmp_rhs,          \* the right side: a Point, or an (i32, i32) tuple
    cmp_result,       \* << >>, or <<what <, <=, > and >= gave, and the bound check>>
    draw_list,        \* UiRenderer.draw_list: commands, vertices and indices
    added,            \* << >>, or <<the command and the number of quads of the last insertion>>
    inserted,         \* the number of quads inserted so far
    items,            \* UiList.items: the texts of the list
    selected,         \* UiList.selected
    list_status,      \* "Running", or "Panicked" once a call on the list panicked
    debug_assertions, \* TRUE when usize arithmetic is checked
    found             \* << >>, or <<the text InvLayer::result returned>>

resolveVars == <<edges, quadrant, autotile_index>>
edgeVars == <<board, pos, res>>
builderVars == <<locations, frames, packers, status, manager, last, calls, registered, query,
                failed>>
animVars == <<anim_tile, anim_msecs, anim_offset>>
tileMapVars == <<map, tile_manager, given, instances>>
shaderVars == <<vert_file, frag_file, program, bg_status, reloaded>>
iterVars == <<iter, overflow_checks, yielded, returned>>
compareVars == <<cmp_lhs, cmp_rhs, cmp_result>>
drawVars == <<draw_list, added, inserted>>
listVars == <<items, selected, list_status, debug_assertions, found>>

\* What each specification leaves alone.
othersOfBuilder == <<resolveVars, edgeVars, animVars, tileMapVars, shaderVars, iterVars, compareVars, drawVars, listVars>>
othersOfResolve == <<edgeVars, builderVars, animVars, tileMapVars, shaderVars, iterVars, compareVars, drawVars, listVars>>
othersOfEdges == <<resolveVars, builderVars, animVars, tileMapVars, shaderVars, iterVars, compareVars, drawVars, listVars>>
othersOfAnim == <<resolveVars, edgeVars, builderVars, tileMapVars, shaderVars, iterVars, compareVars, drawVars, listVars>>
othersOfTileMap == <<resolveVars, edgeVars, builderVars, animVars, shaderVars, iterVars, compareVars, drawVars, listVars>>
othersOfShader == <<resolveVars, edgeVars, builderVars, animVars, tileMapVars, iterVars, compareVars, drawVars, listVars>>
othersOfIter == <<resolveVars, edgeVars, builderVars, animVars, tileMapVars, shaderVars, compareVars, drawVars, listVars>>
othersOfCompare == <<resolveVars, edgeVars, builderVars, animVars, tileMapVars, shaderVars, iterVars, drawVars, listVars>>
othersOfDraw == <<resolveVars, edgeVars, builderVars, animVars, tileMapVars, shaderVars, iterVars, compareVars, listVars>>
othersOfList == <<resolveVars, edgeVars, builderVars, animVars, tileMapVars, shaderVars, iterVars, compareVars, drawVars>>

(***************************************************************************)
(* Bounds of the model.                                                    *)
(***************************************************************************)
BoardWidth == 3
BoardHeight == 2
MaxCalls == 3
MaxFrameCount == 5
MaxMsecs == 450
MapWidth == 2
MaxRev == 1
MaxSide == 3
MaxRadius == 2
MaxCoord == 2
MaxQuads == 2
MaxItems == 3

(***************************************************************************)
(* Bit arithmetic on u8 values.                                            *)
(***************************************************************************)
Pow2(n) == 2 ^ n

\* (m & (1 << b)) > 0
BitSet(m, b) == (m \div Pow2(b)) % 2 = 1

\* m | (1 << b), on a u8
BitOr(m, b) == IF BitSet(m, b) THEN m ELSE (m + Pow2(b)) % 256

(***************************************************************************)
(* point::Direction and point::DIRECTIONS.                                 *)
(***************************************************************************)
DIRECTIONS == <<"N", "NE", "E", "SE", "S", "SW", "W", "NW">>

Direction == {DIRECTIONS[i] : i \in 1..Len(DIRECTIONS)}

\* Point + Direction: the unit step of a compass direction, y growing south.
DirOffset(dir) ==
    CASE dir = "N"  -> [x |-> 0,  y |-> -1]
      [] dir = "NE" -> [x |-> 1,  y |-> -1]
      [] dir = "E"  -> [x |-> 1,  y |-> 0]
      [] dir = "SE" -> [x |-> 1,  y |-> 1]
      [] dir = "S"  -> [x |-> 0,  y |-> 1]
      [] dir = "SW" -> [x |-> -1, y |-> 1]
      [] dir = "W"  -> [x |-> -1, y |-> 0]
      [] dir = "NW" -> [x |-> -1, y |-> -1]

PointAdd(p, q) == [x |-> p.x + q.x, y |-> p.y + q.y]

(***************************************************************************)
(* dir_to_bit                                                              *)
(***************************************************************************)
\* A slip in the table: W given the bit of E.
dir_to_bit_dup(dir) ==
    CASE dir = "NE" -> 0
      [] dir = "N"  -> 1
      [] dir = "NW" -> 2
      [] dir = "E"  -> 3
      [] dir = "W"  -> 3
      [] dir = "SE" -> 5
      [] dir = "S"  -> 6
      [] dir = "SW" -> 7

dir_to_bit(dir) ==
    CASE dir = "NE" -> 0
      [] dir = "N"  -> 1
      [] dir = "NW" -> 2
      [] dir = "E"  -> 3
      [] dir = "W"  -> 4
      [] dir = "SE" -> 5
      [] dir = "S"  -> 6
      [] dir = "SW" -> 7

(***************************************************************************)
(* get_autotile_index                                                      *)
(***************************************************************************)
QUAD_NW == 0
QUAD_NE == 1
QUAD_SW == 2
QUAD_SE == 3

Quadrants == {QUAD_NW, QUAD_NE, QUAD_SW, QUAD_SE}

is_connected(e, dir) == BitSet(e, dir_to_bit(dir))

\* tiles is the Rust array [i8; 4]: tiles[k] of the source is tiles[k + 1] here.
\* The corner test dropped: two connected edges always give the interior tile.
lookup_idx_nocorner(e, horiz, vert, corner, tiles, corner_piece) ==
    IF ~is_connected(e, horiz) /\ ~is_connected(e, vert) THEN tiles[1]
    ELSE IF ~is_connected(e, horiz) /\ is_connected(e, vert) THEN tiles[2]
    ELSE IF is_connected(e, horiz) /\ ~is_connected(e, vert) THEN tiles[3]
    ELSE tiles[4]

lookup_idx(e, horiz, vert, corner, tiles, corner_piece) ==
    IF ~is_connected(e, horiz) /\ ~is_connected(e, vert) THEN tiles[1]
    ELSE IF ~is_connected(e, horiz) /\ is_connected(e, vert) THEN tiles[2]
    ELSE IF is_connected(e, horiz) /\ ~is_connected(e, vert) THEN tiles[3]
    ELSE IF ~is_connected(e, corner) THEN corner_piece
    ELSE tiles[4]

\* The isolated case demanding that the four diagonals be unset as well.
isolated_all_eight(e) ==
    \A dir \in Direction : ~is_connected(e, dir)

isolated(e) ==
    /\ ~is_connected(e, "N")
    /\ ~is_connected(e, "W")
    /\ ~is_connected(e, "E")
    /\ ~is_connected(e, "S")

\* The SE arm missing from the table match: it falls to the wildcard arm.
quadrant_table_no_se(e, q) ==
    CASE q = QUAD_NW -> lookup_idx(e, "N", "W", "NW", <<8, 9, 12, 13>>, 2)
      [] q = QUAD_NE -> lookup_idx(e, "N", "E", "NE", <<11, 10, 15, 14>>, 3)
      [] q = QUAD_SW -> lookup_idx(e, "S", "W", "SW", <<20, 21, 16, 17>>, 6)
      [] OTHER -> -1

\* The SE row written with the tiles of the SW row.
quadrant_table_se_as_sw(e, q) ==
    CASE q = QUAD_NW -> lookup_idx(e, "N", "W", "NW", <<8, 9, 12, 13>>, 2)
      [] q = QUAD_NE -> lookup_idx(e, "N", "E", "NE", <<11, 10, 15, 14>>, 3)
      [] q = QUAD_SW -> lookup_idx(e, "S", "W", "SW", <<20, 21, 16, 17>>, 6)
      [] q = QUAD_SE -> lookup_idx(e, "S", "E", "SE", <<20, 21, 16, 17>>, 6)
      [] OTHER -> -1

quadrant_table(e, q) ==
    CASE q = QUAD_NW -> lookup_idx(e, "N", "W", "NW", <<8, 9, 12, 13>>, 2)
      [] q = QUAD_NE -> lookup_idx(e, "N", "E", "NE", <<11, 10, 15, 14>>, 3)
      [] q = QUAD_SW -> lookup_idx(e, "S", "W", "SW", <<20, 21, 16, 17>>, 6)
      [] q = QUAD_SE -> lookup_idx(e, "S", "E", "SE", <<23, 22, 19, 18>>, 7)
      [] OTHER -> -1

isolated_table(q) ==
    CASE q = QUAD_NW -> 0
      [] q = QUAD_NE -> 1
      [] q = QUAD_SW -> 4
      [] q = QUAD_SE -> 5
      [] OTHER -> -1

get_autotile_index(e, q) ==
    IF isolated(e) THEN isolated_table(q) ELSE quadrant_table(e, q)

(***************************************************************************)
(* Board::get and get_neighboring_edges                                    *)
(***************************************************************************)
BoardTerrains == {"Floor", "Nothing"}

BoardPoints == {[x |-> i, y |-> j] : i \in 0..(BoardWidth - 1), j \in 0..(BoardHeight - 1)}

Boards == [BoardPoints -> BoardTerrains]

\* Board::get: the terrain of a cell, the void terrain outside the board.
BoardGet(b, p) == IF p \in DOMAIN b THEN b[p] ELSE "Nothing"

\* The loop over DIRECTIONS from its k-th element on, acc being res so far.
RECURSIVE edges_loop(_, _, _, _)
edges_loop(b, p, k, acc) ==
    IF k > Len(DIRECTIONS) THEN acc
    ELSE LET dir == DIRECTIONS[k]
             new_pos == PointAdd(p, DirOffset(dir))
             same_type == BoardGet(b, new_pos) = BoardGet(b, p)
         IN edges_loop(b, p, k + 1,
                       IF same_type THEN BitOr(acc, dir_to_bit(dir)) ELSE acc)

get_neighboring_edges(b, p) == edges_loop(b, p, 1, 0)

(***************************************************************************)
(* The bin packer: a skyline packer of one page, without rotation,         *)
(* trimming or padding.  A skyline is a sequence of segments [x, y, w],     *)
(* left to right, y being the height already taken over [x, x + w).         *)
(***************************************************************************)
SetMax(S) == CHOOSE m \in S : \A n \in S : n <= m
SetMin(S) == CHOOSE m \in S : \A n \in S : m <= n

new_skyline(config) ==
    [config |-> config,
     skylines |-> <<[x |-> 0, y |-> 0, w |-> config.max_width]>>]

\* The placement height of a span [x0, x0 + w): the greatest skyline height
\* over it.
span_top(sky, x0, w) ==
    SetMax({0} \cup {sky[j].y : j \in {j \in 1..Len(sky) :
                                          sky[j].x < x0 + w /\ sky[j].x + sky[j].w > x0}})

\* Whether a w x h image fits with its left edge on segment i.
can_put(packer, i, w, h) ==
    LET sky == packer.skylines
        x0 == sky[i].x
    IN /\ x0 + w <= packer.config.max_width
       /\ span_top(sky, x0, w) + h <= packer.config.max_height

\* The first segment, in scan order, that accommodates the image; 0 if none.
find_skyline(packer, w, h) ==
    LET fit == {i \in 1..Len(packer.skylines) : can_put(packer, i, w, h)}
    IN IF fit = {} THEN 0 ELSE SetMin(fit)

can_pack(packer, texture) == find_skyline(packer, texture.w, texture.h) # 0

RECURSIVE merge(_)
merge(sky) ==
    IF Len(sky) < 2 THEN sky
    ELSE IF sky[1].y = sky[2].y
         THEN merge(<<[x |-> sky[1].x, y |-> sky[1].y, w |-> sky[1].w + sky[2].w]>>
                    \o SubSeq(sky, 3, Len(sky)))
         ELSE <<sky[1]>> \o merge(Tail(sky))

\* The placement of a w x h image (it must fit): the rect and the packer after.
pack(packer, texture) ==
    LET sky == packer.skylines
        i == find_skyline(packer, texture.w, texture.h)
        x0 == sky[i].x
        x1 == x0 + texture.w
        top == span_top(sky, x0, texture.w)
        rest == SelectSeq(SubSeq(sky, i, Len(sky)), LAMBDA s : s.x + s.w > x1)
        cut == [j \in 1..Len(rest) |->
                   IF rest[j].x < x1
                   THEN [x |-> x1, y |-> rest[j].y, w |-> rest[j].x + rest[j].w - x1]
                   ELSE rest[j]]
        placed == <<[x |-> x0, y |-> top + texture.h, w |-> texture.w]>>
    IN [rect |-> [x |-> x0, y |-> top, w |-> texture.w, h |-> texture.h],
        packer |-> [packer EXCEPT !.skylines = merge(SubSeq(sky, 1, i - 1) \o placed \o cut)]]

(***************************************************************************)
(* TileManagerBuilder                                                      *)
(***************************************************************************)
MAX_WIDTH == 2048
MAX_HEIGHT == 2048
TILE_SIZE == 48

\* The image files the builder may be pointed at, and what decoding one gives:
\* a texture of some size, or a failure.
Keys == {"a.png", "b.png", "c.png"}

Widths == {1024, 2048}
Heights == {1024, 2048}

\* Images larger than a page, one in each axis
Oversize == {[ok |-> TRUE, w |-> 3072, h |-> 1024], [ok |-> TRUE, w |-> 1024, h |-> 3072]}

Files ==
    [ok : {TRUE}, w : Widths, h : Heights] \cup Oversize \cup [ok : {FALSE}, w : {0}, h : {0}]

TileIndices == {0, 1}

TileDatas ==
    {[offset |-> <<0, 0>>, is_autotile |-> FALSE,
      tile_kind |-> [kind |-> "Static", frame_count |-> 0, delay |-> 0]],
     [offset |-> <<12, 0>>, is_autotile |-> TRUE,
      tile_kind |-> [kind |-> "Animated", frame_count |-> 4, delay |-> 100]]}

EmptyMap == << >>

\* HashMap::insert
MapInsert(m, k, v) == [x \in DOMAIN m \cup {k} |-> IF x = k THEN v ELSE m[x]]

AtlasFrame_new(texture_idx, rect) ==
    [tile_size |-> <<TILE_SIZE, TILE_SIZE>>,
     texture_idx |-> texture_idx,
     rect |-> rect,
     offsets |-> EmptyMap]

\* The configuration with the page height doubled.
packer_config_tall ==
    [max_width |-> MAX_WIDTH, max_height |-> 2 * MAX_HEIGHT,
     allow_rotation |-> FALSE, trim |-> FALSE, texture_padding |-> 0]

packer_config ==
    [max_width |-> MAX_WIDTH, max_height |-> MAX_HEIGHT,
     allow_rotation |-> FALSE, trim |-> FALSE, texture_padding |-> 0]

add_packer(pk) == Append(pk, new_skyline(packer_config))

\* The outcome of add_image: the frames and packers after it, and whether an
\* unwrap panicked on the way.  Page indices are those of the Vec: the page
\* pk[i] has index i - 1.
AddImageResult(fr, pk, panicked) == [frames |-> fr, packers |-> pk, panicked |-> panicked]

\* Place the image on pk[i] and record its frame with the page index idx.
PlaceOn(fr, pk, i, idx, path_string, texture) ==
    LET placed == pack(pk[i], texture)
    IN AddImageResult(MapInsert(fr, path_string, AtlasFrame_new(idx, placed.rect)),
                      [pk EXCEPT ![i] = placed.packer], FALSE)

\* Only the newest page is tried before a new one is opened.
add_image_newest_only(fr, pk, path_string, texture) ==
    IF ~texture.ok THEN AddImageResult(fr, pk, TRUE)
    ELSE IF can_pack(pk[Len(pk)], texture)
         THEN PlaceOn(fr, pk, Len(pk), Len(pk) - 1, path_string, texture)
         ELSE LET pk2 == add_packer(pk)
                  packer_idx == Len(pk2) - 1
              IN IF ~can_pack(pk2[packer_idx + 1], texture)
                 THEN AddImageResult(fr, pk2, TRUE)
                 ELSE PlaceOn(fr, pk2, packer_idx + 1, packer_idx, path_string, texture)

\* The pages scanned from the newest to the oldest.
add_image_newest_first(fr, pk, path_string, texture) ==
    IF ~texture.ok THEN AddImageResult(fr, pk, TRUE)
    ELSE LET fit == {i \in 1..Len(pk) : can_pack(pk[i], texture)}
         IN IF fit # {}
            THEN PlaceOn(fr, pk, SetMax(fit), SetMax(fit) - 1, path_string, texture)
            ELSE LET pk2 == add_packer(pk)
                     packer_idx == Len(pk2) - 1
                 IN IF ~can_pack(pk2[packer_idx + 1], texture)
                    THEN AddImageResult(fr, pk2, TRUE)
                    ELSE PlaceOn(fr, pk2, packer_idx + 1, packer_idx, path_string, texture)

\* The frame of an image placed on an existing page recorded with page 0.
add_image_page_zero(fr, pk, path_string, texture) ==
    IF ~texture.ok THEN AddImageResult(fr, pk, TRUE)
    ELSE LET fit == {i \in 1..Len(pk) : can_pack(pk[i], texture)}
         IN IF fit # {}
            THEN PlaceOn(fr, pk, SetMin(fit), 0, path_string, texture)
            ELSE LET pk2 == add_packer(pk)
                     packer_idx == Len(pk2) - 1
                 IN IF ~can_pack(pk2[packer_idx + 1], texture)
                    THEN AddImageResult(fr, pk2, TRUE)
                    ELSE PlaceOn(fr, pk2, packer_idx + 1, 0, path_string, texture)

\* The frame of an image placed on a new page recorded with the page count.
add_image_off_by_one(fr, pk, path_string, texture) ==
    IF ~texture.ok THEN AddImageResult(fr, pk, TRUE)
    ELSE LET fit == {i \in 1..Len(pk) : can_pack(pk[i], texture)}
         IN IF fit # {}
            THEN PlaceOn(fr, pk, SetMin(fit), SetMin(fit) - 1, path_string, texture)
            ELSE LET pk2 == add_packer(pk)
                     packer_idx == Len(pk2)
                 IN IF ~can_pack(pk2[Len(pk2)], texture)
                    THEN AddImageResult(fr, pk2, TRUE)
                    ELSE PlaceOn(fr, pk2, Len(pk2), packer_idx, path_string, texture)

add_image(fr, pk, path_string, texture) ==
    IF ~texture.ok THEN AddImageResult(fr, pk, TRUE)
    ELSE LET fit == {i \in 1..Len(pk) : can_pack(pk[i], texture)}
         IN IF fit # {}
            THEN PlaceOn(fr, pk, SetMin(fit), SetMin(fit) - 1, path_string, texture)
            ELSE LET pk2 == add_packer(pk)
                     packer_idx == Len(pk2) - 1
                 IN IF ~can_pack(pk2[packer_idx + 1], texture)
                    THEN AddImageResult(fr, pk2, TRUE)
                    ELSE PlaceOn(fr, pk2, packer_idx + 1, packer_idx, path_string, texture)

InitBuilder ==
    /\ locations = EmptyMap
    /\ frames = EmptyMap
    /\ packers = add_packer(<< >>)
    /\ status = "Building"
    /\ manager = << >>
    /\ last = << >>
    /\ calls = 0
    /\ registered = {}
    /\ query = << >>
    /\ failed = << >>

(***************************************************************************)
(* TileManagerBuilder::add_tile and TileManagerBuilder::build               *)
(***************************************************************************)
\* The contains_key test dropped: the image is loaded and packed on every call.
add_tile_always_loads(path_str, index, tile_data, file) ==
    /\ status = "Building"
    /\ calls < MaxCalls
    /\ calls' = calls + 1
    /\ LET key == path_str
           r == add_image(frames, packers, key, file)
       IN /\ packers' = r.packers
          /\ IF r.panicked
             THEN /\ status' = "Panicked"
                  /\ frames' = r.frames
                  /\ failed' = <<[key |-> key, texture |-> file]>>
                  /\ UNCHANGED <<locations, last, registered>>
             ELSE /\ status' = status
                  /\ failed' = failed
                  /\ registered' = registered \cup {key}
                  /\ frames' = [r.frames EXCEPT
                                   ![key].offsets = MapInsert(@, index, tile_data)]
                  /\ locations' = MapInsert(locations, index, key)
                  /\ last' = <<[key |-> key, texture |-> file, packers |-> packers,
                                pages_after |-> Len(r.packers)]>>
    /\ UNCHANGED manager

\* The tile index recorded in locations before the image is loaded.
add_tile_records_first(path_str, index, tile_data, file) ==
    /\ status = "Building"
    /\ calls < MaxCalls
    /\ calls' = calls + 1
    /\ LET key == path_str
           known == key \in DOMAIN frames
           r == IF known THEN AddImageResult(frames, packers, FALSE)
                ELSE add_image(frames, packers, key, file)
       IN /\ packers' = r.packers
          /\ IF r.panicked
             THEN /\ status' = "Panicked"
                  /\ frames' = r.frames
                  /\ failed' = <<[key |-> key, texture |-> file]>>
                  /\ locations' = MapInsert(locations, index, key)
                  /\ UNCHANGED <<last, registered>>
             ELSE /\ status' = status
                  /\ failed' = failed
                  /\ registered' = registered \cup {key}
                  /\ frames' = [r.frames EXCEPT
                                   ![key].offsets = MapInsert(@, index, tile_data)]
                  /\ locations' = MapInsert(locations, index, key)
                  /\ last' = IF known THEN last
                             ELSE <<[key |-> key, texture |-> file, packers |-> packers,
                                     pages_after |-> Len(r.packers)]>>
    /\ UNCHANGED manager

\* The built manager sharing the maps of the builder instead of holding copies.
add_tile_shared(path_str, index, tile_data, file) ==
    /\ status = "Building"
    /\ calls < MaxCalls
    /\ calls' = calls + 1
    /\ LET key == path_str
           known == key \in DOMAIN frames
           r == IF known THEN AddImageResult(frames, packers, FALSE)
                ELSE add_image(frames, packers, key, file)
       IN /\ packers' = r.packers
          /\ IF r.panicked
             THEN /\ status' = "Panicked"
                  /\ frames' = r.frames
                  /\ failed' = <<[key |-> key, texture |-> file]>>
                  /\ UNCHANGED <<locations, last, registered>>
             ELSE /\ status' = status
                  /\ failed' = failed
                  /\ registered' = registered \cup {key}
                  /\ frames' = [r.frames EXCEPT
                                   ![key].offsets = MapInsert(@, index, tile_data)]
                  /\ locations' = MapInsert(locations, index, key)
                  /\ last' = IF known THEN last
                             ELSE <<[key |-> key, texture |-> file, packers |-> packers,
                                     pages_after |-> Len(r.packers)]>>
    /\ manager' = IF manager = << >> THEN manager
                  ELSE <<[manager[1] EXCEPT !.locations = locations', !.frames = frames']>>

\* add_tile(path_str, index, tile_data), file being what decoding path_str
\* gives should the image have to be loaded.
add_tile(path_str, index, tile_data, file) ==
    /\ status = "Building"
    /\ calls < MaxCalls
    /\ calls' = calls + 1
    /\ LET key == path_str
           known == key \in DOMAIN frames
           r == IF known THEN AddImageResult(frames, packers, FALSE)
                ELSE add_image(frames, packers, key, file)
       IN /\ packers' = r.packers
          /\ IF r.panicked
             THEN /\ status' = "Panicked"
                  /\ frames' = r.frames
                  /\ failed' = <<[key |-> key, texture |-> file]>>
                  /\ UNCHANGED <<locations, last, registered>>
             ELSE /\ status' = status
                  /\ failed' = failed
                  /\ registered' = registered \cup {key}
                  /\ frames' = [r.frames EXCEPT
                                   ![key].offsets = MapInsert(@, index, tile_data)]
                  /\ locations' = MapInsert(locations, index, key)
                  /\ last' = IF known THEN last
                             ELSE <<[key |-> key, texture |-> file, packers |-> packers,
                                     pages_after |-> Len(r.packers)]>>
    /\ UNCHANGED manager

\* The file behind a key is read only when the key has no frame yet; what
\* lies behind a key that has one does not matter, and one file stands for it.
FilesRead(path_str) ==
    IF path_str \in DOMAIN frames THEN {[ok |-> TRUE, w |-> 1024, h |-> 1024]} ELSE Files

AddTile ==
    \E path_str \in Keys, index \in TileIndices, tile_data \in TileDatas :
        \E file \in FilesRead(path_str) :
            /\ add_tile(path_str, index, tile_data, file)
            /\ UNCHANGED query
            /\ UNCHANGED othersOfBuilder

\* A manager that answers for an unknown TileIndex with the frame of a known one.
build_with_fallback ==
    /\ status = "Building"
    /\ calls < MaxCalls
    /\ calls' = calls + 1
    /\ manager' = <<[locations |-> IF frames = EmptyMap THEN locations
                                   ELSE [t \in TileIndices |->
                                            IF t \in DOMAIN locations THEN locations[t]
                                            ELSE CHOOSE k \in DOMAIN frames : TRUE],
                     frames |-> frames,
                     textures |-> [i \in 1..Len(packers) |-> [page |-> i - 1]]]>>
    /\ UNCHANGED <<locations, frames, packers, status, last, registered, query, failed>>
    /\ UNCHANGED othersOfBuilder

\* build(&self): one texture per page, and copies of locations and frames.
build ==
    /\ status = "Building"
    /\ calls < MaxCalls
    /\ calls' = calls + 1
    /\ manager' = <<[locations |-> locations,
                     frames |-> frames,
                     textures |-> [i \in 1..Len(packers) |-> [page |-> i - 1]]]>>
    /\ UNCHANGED <<locations, frames, packers, status, last, registered, query, failed>>
    /\ UNCHANGED othersOfBuilder

(***************************************************************************)
(* TileManager                                                             *)
(***************************************************************************)
\* get_frame: both unwraps succeed exactly when this is TRUE.
has_frame(m, tile_type) ==
    /\ tile_type \in DOMAIN m.locations
    /\ m.locations[tile_type] \in DOMAIN m.frames

get_frame(m, tile_type) == m.frames[m.locations[tile_type]]

get_tile_texture_idx(m, tile_type) == get_frame(m, tile_type).texture_idx

passes(m) == Len(m.textures)

\* frame.offsets.get(&tile_type).unwrap() succeeds exactly when this is TRUE.
has_tile(m, tile_type) ==
    /\ has_frame(m, tile_type)
    /\ tile_type \in DOMAIN get_frame(m, tile_type).offsets

\* get(tile_type), once both lookups have succeeded
get(m, tile_type) == get_frame(m, tile_type).offsets[tile_type]

get_add_offset(rect) == <<rect.x \div 48, rect.y \div 48>>

\* The division and the remainder of the Animated arm panic on a zero divisor.
anim_panics(tile) ==
    /\ tile.tile_kind.kind = "Animated"
    /\ (tile.tile_kind.delay = 0 \/ tile.tile_kind.frame_count = 0)

\* The frame number taken without the remainder by frame_count.
x_index_offset_no_wrap(tile, msecs) ==
    IF tile.tile_kind.kind = "Static" THEN 0
    ELSE LET frame_count == tile.tile_kind.frame_count
             current_frame == msecs \div tile.tile_kind.delay
         IN IF tile.is_autotile
            THEN (4 * current_frame) % frame_count
            ELSE current_frame

\* The column advance of get_texture_offset at msecs: 0 for a static tile.
x_index_offset(tile, msecs) ==
    IF tile.tile_kind.kind = "Static" THEN 0
    ELSE LET frame_count == tile.tile_kind.frame_count
             delay == tile.tile_kind.delay
             current_frame == msecs \div delay
         IN IF tile.is_autotile
            THEN (4 * current_frame) % frame_count
            ELSE current_frame % frame_count

\* get_tex_coords(tile.offset) before the scaling by get_tex_ratio: the
\* half-tile column and row, and the page whose ratio scales them.
get_texture_offset(m, tile_type, msecs) ==
    LET frame == get_frame(m, tile_type)
        tile == get(m, tile_type)
        add_offset == get_add_offset(frame.rect)
    IN [texture_idx |-> frame.texture_idx,
        tx |-> (tile.offset[1] + add_offset[1] + x_index_offset(tile, msecs)) * 2,
        ty |-> (tile.offset[2] + add_offset[2]) * 2]

LookupOps == {"get", "get_tile_texture_idx", "get_texture_offset"}

QueryTimes == {0, 150}

\* Whether the lookup op of tile_type panics on manager m
lookup_panics(m, op, tile_type) ==
    \/ ~has_frame(m, tile_type)
    \/ op # "get_tile_texture_idx" /\ ~has_tile(m, tile_type)
    \/ /\ op = "get_texture_offset"
       /\ \/ get_frame(m, tile_type).texture_idx >= Len(m.textures)
          \/ anim_panics(get(m, tile_type))

lookup_value(m, op, tile_type, msecs) ==
    CASE op = "get" -> get(m, tile_type)
      [] op = "get_tile_texture_idx" -> get_tile_texture_idx(m, tile_type)
      [] op = "get_texture_offset" -> get_texture_offset(m, tile_type, msecs)

\* A lookup on the TileManager built last.
Lookup ==
    /\ manager # << >>
    /\ status = "Building"
    /\ calls < MaxCalls
    /\ calls' = calls + 1
    /\ \E op \in LookupOps, tile_type \in TileIndices, msecs \in QueryTimes :
           LET m == manager[1]
               panicked == lookup_panics(m, op, tile_type)
           IN /\ status' = IF panicked THEN "Panicked" ELSE status
              /\ query' = <<[op |-> op, tile_type |-> tile_type, msecs |-> msecs,
                             panicked |-> panicked,
                             value |-> IF panicked THEN << >>
                                       ELSE <<lookup_value(m, op, tile_type, msecs)>>]>>
    /\ UNCHANGED <<locations, frames, packers, manager, last, registered, failed>>
    /\ UNCHANGED othersOfBuilder

(***************************************************************************)
(* The builder specification.                                              *)
(***************************************************************************)
vars == <<resolveVars, edgeVars, builderVars, animVars, tileMapVars, shaderVars, iterVars, compareVars, drawVars, listVars>>

\* The state of the resolver and of the adjacency computation before any call.
IdleResolve ==
    /\ edges = 0
    /\ quadrant = QUAD_NW
    /\ autotile_index = << >>

IdleEdges ==
    /\ board = [p \in BoardPoints |-> "Floor"]
    /\ pos = [x |-> 0, y |-> 0]
    /\ res = << >>

IdleAnim ==
    /\ anim_tile = [offset |-> <<0, 0>>, is_autotile |-> FALSE,
                    tile_kind |-> [kind |-> "Static", frame_count |-> 0, delay |-> 0]]
    /\ anim_msecs = 0
    /\ anim_offset = << >>

IdleTileMap ==
    /\ map = << >>
    /\ tile_manager = [locations |-> EmptyMap, frames |-> EmptyMap, textures |-> << >>]
    /\ given = << >>
    /\ instances = << >>

IdleShader ==
    /\ vert_file = [kind |-> "Valid", rev |-> 0]
    /\ frag_file = [kind |-> "Valid", rev |-> 0]
    /\ program = [vert |-> 0, frag |-> 0]
    /\ bg_status = "Running"
    /\ reloaded = << >>

IdleIter ==
    /\ iter = [pos |-> [x |-> 0, y |-> 0], top_left |-> [x |-> 0, y |-> 0],
               bottom_right |-> [x |-> 0, y |-> 0], done |-> FALSE]
    /\ overflow_checks = TRUE
    /\ yielded = << >>
    /\ returned = << >>

IdleCompare ==
    /\ cmp_lhs = [x |-> 0, y |-> 0]
    /\ cmp_rhs = [kind |-> "Point", val |-> [x |-> 0, y |-> 0]]
    /\ cmp_result = << >>

IdleDraw ==
    /\ draw_list = [commands |-> << >>, vertices |-> << >>, indices |-> << >>]
    /\ added = << >>
    /\ inserted = 0

IdleList ==
    /\ items = << >>
    /\ selected = 0
    /\ list_status = "Running"
    /\ debug_assertions = TRUE
    /\ found = << >>

Init ==
    /\ InitBuilder
    /\ IdleResolve
    /\ IdleEdges
    /\ IdleAnim
    /\ IdleTileMap
    /\ IdleShader
    /\ IdleIter
    /\ IdleCompare
    /\ IdleDraw
    /\ IdleList

Next == AddTile \/ build \/ Lookup

Spec == Init /\ [][Next]_vars

(***************************************************************************)
(* The resolver specification: get_autotile_index applied to every mask    *)
(* and quadrant.                                                           *)
(***************************************************************************)
Masks == 0..255

InitResolve ==
    /\ IdleResolve
    /\ IdleEdges
    /\ InitBuilder
    /\ IdleAnim
    /\ IdleTileMap
    /\ IdleShader
    /\ IdleIter
    /\ IdleCompare
    /\ IdleDraw
    /\ IdleList

Resolve ==
    \E e \in Masks, q \in Quadrants :
        /\ edges' = e
        /\ quadrant' = q
        /\ autotile_index' = <<get_autotile_index(e, q)>>
        /\ UNCHANGED othersOfResolve

NextResolve == Resolve

SpecResolve == InitResolve /\ [][NextResolve]_vars

(***************************************************************************)
(* The adjacency specification: get_neighboring_edges applied to a cell of  *)
(* a board.                                                                *)
(***************************************************************************)
InitEdges ==
    /\ board \in Boards
    /\ pos \in BoardPoints
    /\ res = << >>
    /\ IdleResolve
    /\ InitBuilder
    /\ IdleAnim
    /\ IdleTileMap
    /\ IdleShader
    /\ IdleIter
    /\ IdleCompare
    /\ IdleDraw
    /\ IdleList

NeighboringEdges ==
    /\ res = << >>
    /\ res' = <<get_neighboring_edges(board, pos)>>
    /\ UNCHANGED <<board, pos>>
    /\ UNCHANGED othersOfEdges

NextEdges == NeighboringEdges

SpecEdges == InitEdges /\ [][NextEdges]_vars

(***************************************************************************)
(* The animation specification: the column advance of get_texture_offset    *)
(* for one tile as the time handed to it grows.                             *)
(***************************************************************************)
Delays == {0, 1, 100, 150}

TimeSteps == {1, 50}

AnimTiles ==
    {[offset |-> <<0, 0>>, is_autotile |-> a,
      tile_kind |-> [kind |-> "Static", frame_count |-> 0, delay |-> 0]] :
        a \in BOOLEAN}
    \cup
    {[offset |-> <<0, 0>>, is_autotile |-> a,
      tile_kind |-> [kind |-> "Animated", frame_count |-> n, delay |-> d]] :
        a \in BOOLEAN, n \in 0..MaxFrameCount, d \in Delays}

InitAnim ==
    /\ anim_tile \in AnimTiles
    /\ anim_msecs = 0
    /\ anim_offset = << >>
    /\ IdleResolve
    /\ IdleEdges
    /\ InitBuilder
    /\ IdleTileMap
    /\ IdleShader
    /\ IdleIter
    /\ IdleCompare
    /\ IdleDraw
    /\ IdleList

\* The match on tile.tile_kind of get_tex_coords, at anim_msecs
GetOffset ==
    /\ anim_offset = << >>
    /\ anim_offset' = <<IF anim_panics(anim_tile)
                        THEN [panicked |-> TRUE, x |-> 0]
                        ELSE [panicked |-> FALSE,
                              x |-> x_index_offset(anim_tile, anim_msecs)]>>
    /\ UNCHANGED <<anim_tile, anim_msecs>>
    /\ UNCHANGED othersOfAnim

\* Time passes until the next frame is rendered.
Elapse ==
    /\ anim_offset # << >>
    /\ ~anim_offset[1].panicked
    /\ \E dt \in TimeSteps :
           /\ anim_msecs + dt <= MaxMsecs
           /\ anim_msecs' = anim_msecs + dt
    /\ anim_offset' = << >>
    /\ UNCHANGED anim_tile
    /\ UNCHANGED othersOfAnim

NextAnim == GetOffset \/ Elapse

SpecAnim == InitAnim /\ [][NextAnim]_vars

(***************************************************************************)
(* The tile map specification: TileMap::update and TileMap::render.         *)
(***************************************************************************)
\* Terrain::n
Terrain_n(t) ==
    CASE t = "Wall" -> 12
      [] t = "Floor" -> 4
      [] t = "Important" -> 29
      [] t = "Nothing" -> 31

MapHeights == {1, 2}

\* The boards of every width up to the bound and of these heights
MapBoards ==
    UNION {[{[x |-> i, y |-> j] : i \in 0..(w - 1), j \in 0..(h - 1)} -> BoardTerrains] :
              w \in 1..MapWidth, h \in MapHeights}

\* Board::width and Board::height
width(b) == Cardinality({p.x : p \in DOMAIN b})

height(b) == Cardinality({p.y : p \in DOMAIN b})

\* The loops of make_map from column i, row j on, acc being res so far.
RECURSIVE make_map_loop(_, _, _, _)
make_map_loop(b, i, j, acc) ==
    IF i >= width(b) THEN acc
    ELSE IF j >= height(b) THEN make_map_loop(b, i + 1, 0, acc)
    ELSE LET p == [x |-> i, y |-> j]
             tile == [idx |-> Terrain_n(BoardGet(b, p)),
                      edges |-> get_neighboring_edges(b, p)]
         IN make_map_loop(b, i, j + 1, Append(acc, [tile |-> tile, pos |-> p]))

make_map(b) == make_map_loop(b, 0, 0, << >>)

\* The closure of flat_map: the four instances of one stored cell.
cell_instances(m, e, msecs) ==
    [n \in 1..4 |->
        [map_coord |-> <<e.pos.x, e.pos.y>>,
         tex_offset |-> get_texture_offset(m, e.tile.idx, msecs),
         quadrant |-> n - 1,
         autotile |-> 1,
         autotile_index |-> get_autotile_index(e.tile.edges, n - 1)]]

RECURSIVE flat_map(_, _, _)
flat_map(m, cells, msecs) ==
    IF cells = << >> THEN << >>
    ELSE cell_instances(m, Head(cells), msecs) \o flat_map(m, Tail(cells), msecs)

\* The filter on the pass dropped: every stored cell is drawn in every pass.
create_instances_all(m, cells, pass, msecs) == flat_map(m, cells, msecs)

create_instances(m, cells, pass, msecs) ==
    LET on_pass(e) == get_tile_texture_idx(m, e.tile.idx) = pass
    IN flat_map(m, SelectSeq(cells, on_pass), msecs)

\* render: one draw per pass; the lookups of create_instances panic on a
\* stored tile index the manager cannot answer for.
render(m, cells, msecs) ==
    IF /\ passes(m) > 0
       /\ \E n \in 1..Len(cells) : lookup_panics(m, "get_texture_offset", cells[n].tile.idx)
    THEN [panicked |-> TRUE, draws |-> << >>]
    ELSE [panicked |-> FALSE,
          draws |-> [p \in 1..passes(m) |-> create_instances(m, cells, p - 1, msecs)]]

StaticTile ==
    [offset |-> <<0, 0>>, is_autotile |-> TRUE,
     tile_kind |-> [kind |-> "Static", frame_count |-> 0, delay |-> 0]]

\* The managers a builder leaves after packing a.png, which fills page 0, and
\* b.png, which goes to page 1, the terrains being registered on either
\* image or not at all.
TileMapManagers ==
    {[locations |-> loc,
      frames |-> [k \in {"a.png", "b.png"} |->
                    [AtlasFrame_new(IF k = "a.png" THEN 0 ELSE 1,
                                    [x |-> 0, y |-> 0,
                                     w |-> IF k = "a.png" THEN 2048 ELSE 1024,
                                     h |-> IF k = "a.png" THEN 2048 ELSE 1024])
                     EXCEPT !.offsets = [t \in {u \in DOMAIN loc : loc[u] = k} |-> StaticTile]]],
      textures |-> <<[page |-> 0], [page |-> 1]>>] :
        loc \in UNION {[d -> {"a.png", "b.png"}] :
                          d \in SUBSET {Terrain_n(t) : t \in BoardTerrains}}}

InitTileMap ==
    /\ map = << >>
    /\ tile_manager \in TileMapManagers
    /\ given = << >>
    /\ instances = << >>
    /\ IdleResolve
    /\ IdleEdges
    /\ InitBuilder
    /\ IdleAnim
    /\ IdleShader
    /\ IdleIter
    /\ IdleCompare
    /\ IdleDraw
    /\ IdleList

\* The new descriptors pushed after those of the previous board.
update_appending ==
    /\ (instances # << >> => ~instances[1].panicked)
    /\ \E b \in MapBoards :
           /\ map' = map \o make_map(b)
           /\ given' = <<b>>
    /\ instances' = << >>
    /\ UNCHANGED tile_manager
    /\ UNCHANGED othersOfTileMap

\* update(board)
update ==
    /\ (instances # << >> => ~instances[1].panicked)
    /\ \E b \in MapBoards :
           /\ map' = make_map(b)
           /\ given' = <<b>>
    /\ instances' = << >>
    /\ UNCHANGED tile_manager
    /\ UNCHANGED othersOfTileMap

Render ==
    /\ instances = << >>
    /\ \E msecs \in QueryTimes :
           instances' = <<render(tile_manager, map, msecs)>>
    /\ UNCHANGED <<map, tile_manager, given>>
    /\ UNCHANGED othersOfTileMap

NextTileMap == update \/ Render

SpecTileMap == InitTileMap /\ [][NextTileMap]_vars

(***************************************************************************)
(* The background specification: Background::new and refresh_shaders, and   *)
(* the shader files changing on disk between reloads.                       *)
(***************************************************************************)
\* A shader file: absent, not readable as UTF-8, or a text that compiles
\* (Valid) or does not (Invalid); rev tells one text from another.
ShaderFiles ==
    {[kind |-> "Missing", rev |-> 0]}
    \cup [kind : {"NotUtf8", "Invalid", "Valid"}, rev : 0..MaxRev]

\* util::read_string: File::open(path).unwrap() and read_to_string(..).unwrap()
read_string_panics(file) == file.kind \in {"Missing", "NotUtf8"}

\* load_program: "Panic" from read_string, else the Result of
\* glium::Program::from_source on the two texts.
load_program(vert, frag) ==
    IF read_string_panics(vert) \/ read_string_panics(frag)
    THEN [outcome |-> "Panic", program |-> << >>]
    ELSE IF vert.kind = "Valid" /\ frag.kind = "Valid"
         THEN [outcome |-> "Ok", program |-> <<[vert |-> vert.rev, frag |-> frag.rev]>>]
         ELSE [outcome |-> "Err", program |-> << >>]

\* Background::new: load_program(..).unwrap() has succeeded.
InitShader ==
    /\ vert_file \in ShaderFiles
    /\ frag_file \in ShaderFiles
    /\ load_program(vert_file, frag_file).outcome = "Ok"
    /\ program = load_program(vert_file, frag_file).program[1]
    /\ bg_status = "Running"
    /\ reloaded = << >>
    /\ IdleResolve
    /\ IdleEdges
    /\ InitBuilder
    /\ IdleAnim
    /\ IdleTileMap
    /\ IdleIter
    /\ IdleCompare
    /\ IdleDraw
    /\ IdleList

\* A shader file is written, replaced or removed while the program runs.
EditShader ==
    /\ bg_status = "Running"
    /\ \E v \in ShaderFiles, f \in ShaderFiles :
           /\ <<v, f>> # <<vert_file, frag_file>>
           /\ vert_file' = v
           /\ frag_file' = f
    /\ reloaded' = << >>
    /\ UNCHANGED <<program, bg_status>>
    /\ UNCHANGED othersOfShader

refresh_shaders ==
    /\ bg_status = "Running"
    /\ LET r == load_program(vert_file, frag_file)
       IN /\ reloaded' = <<[outcome |-> r.outcome, previous |-> program]>>
          /\ program' = IF r.outcome = "Ok" THEN r.program[1] ELSE program
          /\ bg_status' = IF r.outcome = "Panic" THEN "Panicked" ELSE bg_status
    /\ UNCHANGED <<vert_file, frag_file>>
    /\ UNCHANGED othersOfShader

NextShader == EditShader \/ refresh_shaders

SpecShader == InitShader /\ [][NextShader]_vars

(***************************************************************************)
(* The rectangle iterator specification: RectangleIter::new and next.       *)
(* Coordinates are i32.                                                     *)
(***************************************************************************)
I32_MAX == 2147483647

I32_MIN == -I32_MAX - 1

\* The coordinates a rectangle starts at: around the origin, and near the
\* largest i32.
Origins == {-1, 0, I32_MAX - 2}

\* The rectangles with top_left <= bottom_right and sides up to MaxSide
Rectangles ==
    {[top_left |-> [x |-> x0, y |-> y0],
      bottom_right |-> [x |-> x0 + (w - 1), y |-> y0 + (h - 1)]] :
        <<x0, y0, w, h>> \in
            {t \in Origins \X Origins \X (1..MaxSide) \X (1..MaxSide) :
                t[1] <= I32_MAX - (t[3] - 1) /\ t[2] <= I32_MAX - (t[4] - 1)}}

RectangleIter_new(top_left, bottom_right) ==
    [pos |-> top_left, top_left |-> top_left, bottom_right |-> bottom_right, done |-> FALSE]

\* v += 1 on an i32: a panic with overflow checks, a wrap without.
add_one(v, checks) ==
    IF v < I32_MAX THEN [panicked |-> FALSE, v |-> v + 1]
    ELSE IF checks THEN [panicked |-> TRUE, v |-> v]
    ELSE [panicked |-> FALSE, v |-> I32_MIN]

\* next(&mut self): the iterator after the call, and what the call came to.
next(self, checks) ==
    IF self.done THEN [self |-> self, ret |-> "None", point |-> << >>]
    ELSE LET current_point == self.pos
             s1 == IF self.pos = self.bottom_right THEN [self EXCEPT !.done = TRUE] ELSE self
             x1 == add_one(s1.pos.x, checks)
         IN IF x1.panicked THEN [self |-> s1, ret |-> "Panic", point |-> << >>]
            ELSE LET s2 == [s1 EXCEPT !.pos.x = x1.v]
                 IN IF s2.pos.x > s2.bottom_right.x
                    THEN LET y1 == add_one(s2.pos.y, checks)
                         IN IF y1.panicked
                            THEN [self |-> s2, ret |-> "Panic", point |-> << >>]
                            ELSE [self |-> [s2 EXCEPT !.pos.y = y1.v,
                                                      !.pos.x = s2.top_left.x],
                                  ret |-> "Some", point |-> <<current_point>>]
                    ELSE [self |-> s2, ret |-> "Some", point |-> <<current_point>>]

InitIter ==
    /\ \E r \in Rectangles : iter = RectangleIter_new(r.top_left, r.bottom_right)
    /\ overflow_checks \in BOOLEAN
    /\ yielded = << >>
    /\ returned = << >>
    /\ IdleResolve
    /\ IdleEdges
    /\ InitBuilder
    /\ IdleAnim
    /\ IdleTileMap
    /\ IdleShader
    /\ IdleCompare
    /\ IdleDraw
    /\ IdleList

\* One call of next; a caller stops calling after a panic, and the model
\* stops once more points have come than any rectangle of the bound holds.
Advance ==
    /\ (returned # << >> => returned[1] # "Panic")
    /\ Len(yielded) <= MaxSide * MaxSide
    /\ LET r == next(iter, overflow_checks)
       IN /\ iter' = r.self
          /\ returned' = <<r.ret>>
          /\ yielded' = yielded \o r.point
    /\ UNCHANGED overflow_checks
    /\ UNCHANGED othersOfIter

NextIter == Advance

SpecIter == InitIter /\ [][NextIter]_vars

(***************************************************************************)
(* The border iterator specification: BorderIter::new and next.             *)
(***************************************************************************)
BorderIter_new(top_left, bottom_right) ==
    [pos |-> top_left, top_left |-> top_left, bottom_right |-> bottom_right, done |-> FALSE]

\* The row of current_point is done: on to the first column of the next row.
next_row(self, checks, current_point) ==
    LET y1 == add_one(self.pos.y, checks)
    IN IF y1.panicked THEN [self |-> self, ret |-> "Panic", point |-> << >>]
       ELSE [self |-> [self EXCEPT !.pos.y = y1.v, !.pos.x = self.top_left.x],
             ret |-> "Some", point |-> <<current_point>>]

\* next(&mut self) of BorderIter
BorderIter_next(self, checks) ==
    IF self.done THEN [self |-> self, ret |-> "None", point |-> << >>]
    ELSE LET current_point == self.pos
             s1 == IF self.pos = self.bottom_right THEN [self EXCEPT !.done = TRUE] ELSE self
         IN IF current_point.y = s1.top_left.y \/ current_point.y = s1.bottom_right.y
            THEN LET x1 == add_one(s1.pos.x, checks)
                 IN IF x1.panicked THEN [self |-> s1, ret |-> "Panic", point |-> << >>]
                    ELSE LET s2 == [s1 EXCEPT !.pos.x = x1.v]
                         IN IF s2.pos.x > s2.bottom_right.x
                            THEN next_row(s2, checks, current_point)
                            ELSE [self |-> s2, ret |-> "Some", point |-> <<current_point>>]
            ELSE IF s1.pos.x = s1.top_left.x
                 THEN [self |-> [s1 EXCEPT !.pos.x = s1.bottom_right.x],
                       ret |-> "Some", point |-> <<current_point>>]
                 ELSE next_row(s1, checks, current_point)

InitBorder ==
    /\ \E r \in Rectangles : iter = BorderIter_new(r.top_left, r.bottom_right)
    /\ overflow_checks \in BOOLEAN
    /\ yielded = << >>
    /\ returned = << >>
    /\ IdleResolve
    /\ IdleEdges
    /\ InitBuilder
    /\ IdleAnim
    /\ IdleTileMap
    /\ IdleShader
    /\ IdleCompare
    /\ IdleDraw
    /\ IdleList

\* One call of next, under the stopping rule of Advance.
AdvanceBorder ==
    /\ (returned # << >> => returned[1] # "Panic")
    /\ Len(yielded) <= MaxSide * MaxSide
    /\ LET r == BorderIter_next(iter, overflow_checks)
       IN /\ iter' = r.self
          /\ returned' = <<r.ret>>
          /\ yielded' = yielded \o r.point
    /\ UNCHANGED overflow_checks
    /\ UNCHANGED othersOfIter

NextBorder == AdvanceBorder

SpecBorder == InitBorder /\ [][NextBorder]_vars

(***************************************************************************)
(* The square iterator specification: SquareIter::new and next.             *)
(***************************************************************************)
\* The coordinates of a centre
SquareOrigins == {-1, 0, 3}

\* Point - (i32, i32), by way of Point + Point::new(-rhs.x, -rhs.y)
PointSub(p, q) == PointAdd(p, [x |-> -q.x, y |-> -q.y])

\* half_side taken one less than radius, as the comment on the struct has it.
SquareIter_new_half_side(center, radius) ==
    LET half_side == radius - 1
    IN [radius |-> radius,
        pos |-> PointSub(center, [x |-> half_side, y |-> half_side]),
        min_x |-> center.x - half_side,
        max |-> PointAdd(center, [x |-> half_side, y |-> half_side])]

SquareIter_new(center, radius) ==
    LET half_side == radius
    IN [radius |-> radius,
        pos |-> PointSub(center, [x |-> half_side, y |-> half_side]),
        min_x |-> center.x - half_side,
        max |-> PointAdd(center, [x |-> half_side, y |-> half_side])]

\* The row left one column early.
SquareIter_next_short_row(self, checks) ==
    IF self.pos.y > self.max.y THEN [self |-> self, ret |-> "None", point |-> << >>]
    ELSE IF self.pos.x + 1 >= self.max.x
         THEN [self |-> [self EXCEPT !.pos.y = @ + 1, !.pos.x = self.min_x],
               ret |-> "Some", point |-> <<self.pos>>]
         ELSE [self |-> [self EXCEPT !.pos.x = @ + 1], ret |-> "Some", point |-> <<self.pos>>]

\* next(&mut self) of SquareIter
SquareIter_next(self, checks) ==
    IF self.pos.y > self.max.y THEN [self |-> self, ret |-> "None", point |-> << >>]
    ELSE IF self.radius = 0
    THEN LET res0 == self.pos
             y1 == add_one(self.pos.y, checks)
         IN IF y1.panicked THEN [self |-> self, ret |-> "Panic", point |-> << >>]
            ELSE [self |-> [self EXCEPT !.pos.y = y1.v], ret |-> "Some", point |-> <<res0>>]
    ELSE LET current_point == self.pos
             x1 == add_one(self.pos.x, checks)
         IN IF x1.panicked THEN [self |-> self, ret |-> "Panic", point |-> << >>]
            ELSE LET s1 == [self EXCEPT !.pos.x = x1.v]
                 IN IF s1.pos.x > s1.max.x
                    THEN LET y1 == add_one(s1.pos.y, checks)
                         IN IF y1.panicked
                            THEN [self |-> s1, ret |-> "Panic", point |-> << >>]
                            ELSE [self |-> [s1 EXCEPT !.pos.y = y1.v, !.pos.x = s1.min_x],
                                  ret |-> "Some", point |-> <<current_point>>]
                    ELSE [self |-> s1, ret |-> "Some", point |-> <<current_point>>]

InitSquare ==
    /\ \E cx \in SquareOrigins, cy \in SquareOrigins, radius \in 0..MaxRadius :
           iter = SquareIter_new([x |-> cx, y |-> cy], radius)
    /\ overflow_checks \in BOOLEAN
    /\ yielded = << >>
    /\ returned = << >>
    /\ IdleResolve
    /\ IdleEdges
    /\ InitBuilder
    /\ IdleAnim
    /\ IdleTileMap
    /\ IdleShader
    /\ IdleCompare
    /\ IdleDraw
    /\ IdleList

\* One call of next; a caller stops calling after a panic.
AdvanceSquare ==
    /\ (returned # << >> => returned[1] # "Panic")
    /\ LET r == SquareIter_next(iter, overflow_checks)
       IN /\ iter' = r.self
          /\ returned' = <<r.ret>>
          /\ yielded' = yielded \o r.point
    /\ UNCHANGED overflow_checks
    /\ UNCHANGED othersOfIter

NextSquare == AdvanceSquare

SpecSquare == InitSquare /\ [][NextSquare]_vars

(***************************************************************************)
(* The comparison specification: PartialOrd for Point, against a Point and  *)
(* against an (i32, i32) tuple.                                            *)
(***************************************************************************)
Coords == (-1)..MaxCoord

ComparedPoints == [x : Coords, y : Coords]

ComparedTuples == Coords \X Coords

\* impl Into<Point> for (i32, i32)
tuple_into(t) == [x |-> t[1], y |-> t[2]]

lt(self, other) == self.x < other.x /\ self.y < other.y

le(self, other) == self.x <= other.x /\ self.y <= other.y

\* > read as the lexicographic order of (x, y).
gt_lexicographic(self, other) ==
    self.x > other.x \/ (self.x = other.x /\ self.y > other.y)

gt(self, other) == self.x > other.x /\ self.y > other.y

ge(self, other) == self.x >= other.x /\ self.y >= other.y

\* impl PartialOrd<(i32, i32)> for Point: the tuple is converted, then the
\* comparison of two Points is taken.
lt_tuple(self, other) == lt(self, tuple_into(other))

le_tuple(self, other) == le(self, tuple_into(other))

gt_tuple(self, other) == gt(self, tuple_into(other))

ge_tuple(self, other) == ge(self, tuple_into(other))

InitCompare ==
    /\ cmp_lhs \in ComparedPoints
    /\ cmp_rhs \in [kind : {"Point"}, val : ComparedPoints]
                      \cup [kind : {"Tuple"}, val : ComparedTuples]
    /\ cmp_result = << >>
    /\ IdleResolve
    /\ IdleEdges
    /\ InitBuilder
    /\ IdleAnim
    /\ IdleTileMap
    /\ IdleShader
    /\ IdleIter
    /\ IdleDraw
    /\ IdleList

\* The four comparisons of the two sides, and the bound check
\* pos >= (0, 0) && pos < rhs.
Compare ==
    /\ cmp_result = << >>
    /\ cmp_result' =
           LET other == cmp_rhs.val
           IN IF cmp_rhs.kind = "Point"
              THEN <<[lt |-> lt(cmp_lhs, other), le |-> le(cmp_lhs, other),
                      gt |-> gt(cmp_lhs, other), ge |-> ge(cmp_lhs, other),
                      within |-> ge(cmp_lhs, [x |-> 0, y |-> 0]) /\ lt(cmp_lhs, other)]>>
              ELSE <<[lt |-> lt_tuple(cmp_lhs, other), le |-> le_tuple(cmp_lhs, other),
                      gt |-> gt_tuple(cmp_lhs, other), ge |-> ge_tuple(cmp_lhs, other),
                      within |-> ge_tuple(cmp_lhs, <<0, 0>>) /\ lt_tuple(cmp_lhs, other)]>>
    /\ UNCHANGED <<cmp_lhs, cmp_rhs>>
    /\ UNCHANGED othersOfCompare

NextCompare == Compare

SpecCompare == InitCompare /\ [][NextCompare]_vars

(***************************************************************************)
(* The draw list specification: UiDrawList and the quad insertions of      *)
(* UiRenderer.                                                             *)
(***************************************************************************)
U16_MAX == 65535

\* usize as u16: the low 16 bits
as_u16(n) == n % (U16_MAX + 1)

F32_EXACT == 16777216

\* u32 as f32: exact up to 2^24; above it, and below 2^25, the nearest even
\* integer, ties to the one whose half is even.
as_f32(v) ==
    IF v <= F32_EXACT \/ v % 2 = 0 THEN v
    ELSE IF ((v + 1) \div 2) % 2 = 0 THEN v + 1 ELSE v - 1

UiDrawList_new == [commands |-> << >>, vertices |-> << >>, indices |-> << >>]

UiDrawList_clear(self) == [commands |-> << >>, vertices |-> << >>, indices |-> << >>]

\* add_command merging on is_text alone.
add_command_same_text(commands, cmd) ==
    IF commands = << >> THEN <<cmd>>
    ELSE LET last_cmd == commands[Len(commands)]
             should_merge == last_cmd.is_text = cmd.is_text
         IN IF should_merge
            THEN [commands EXCEPT ![Len(commands)].elem_count = @ + cmd.elem_count]
            ELSE Append(commands, cmd)

add_command(commands, cmd) ==
    IF commands = << >> THEN <<cmd>>
    ELSE LET last_cmd == commands[Len(commands)]
             should_merge == /\ last_cmd.is_text = cmd.is_text
                             /\ last_cmd.clip_rect = cmd.clip_rect
         IN IF should_merge
            THEN [commands EXCEPT ![Len(commands)].elem_count = @ + cmd.elem_count]
            ELSE Append(commands, cmd)

\* The command of one quad; clip_rect is << >> for None and <<r>> for Some(r).
UiDrawCmd(is_text, clip_rect) ==
    [elem_count |-> 6,
     is_text |-> is_text,
     clip_rect |-> IF clip_rect = << >> THEN << >>
                   ELSE <<[i \in 1..4 |-> as_f32(clip_rect[1][i])]>>]

next_indices(i) == <<i, i + 1, i + 2, i, i + 2, i + 3>>

\* The positions of the four vertices 0---3 / 1---2 of a quad
quad_vertices(screen_pos) ==
    <<<<screen_pos[1], screen_pos[2]>>, <<screen_pos[1], screen_pos[4]>>,
      <<screen_pos[3], screen_pos[4]>>, <<screen_pos[3], screen_pos[2]>>>>

add_tex_internal(self, is_text, screen_pos, clip_rect) ==
    LET cmd == UiDrawCmd(is_text, clip_rect)
        new_indices == next_indices(as_u16(Len(self.vertices)))
    IN [vertices |-> self.vertices \o quad_vertices(screen_pos),
        indices |-> self.indices \o new_indices,
        commands |-> add_command(self.commands, cmd)]

add_tex(self, screen_pos, clip_rect, tex_area) ==
    add_tex_internal(self, FALSE,
                     <<screen_pos[1], screen_pos[2],
                       screen_pos[1] + tex_area[1], screen_pos[2] + tex_area[2]>>,
                     clip_rect)

add_tex_stretch(self, screen_pos, clip_rect) ==
    add_tex_internal(self, FALSE, screen_pos, clip_rect)

\* The repeats of repeat_tex along x and along y
repeats(dir, clipping_rect, tex_area) ==
    LET clipping_width == clipping_rect[3] - clipping_rect[1]
        clipping_height == clipping_rect[4] - clipping_rect[2]
    IN [h |-> IF dir = "Vertical" THEN 0 ELSE clipping_width \div tex_area[1],
        v |-> IF dir = "Horizontal" THEN 0 ELSE clipping_height \div tex_area[2]]

RECURSIVE repeat_column(_, _, _, _, _, _)
\* The inner loop of repeat_tex: n quads downwards from (x, y)
repeat_column(self, x, y, tex_area, clipping_rect, n) ==
    IF n = 0 THEN self
    ELSE repeat_column(add_tex_internal(self, FALSE,
                                        <<x, y, x + tex_area[1], y + tex_area[2]>>,
                                        <<clipping_rect>>),
                       x, y + tex_area[2], tex_area, clipping_rect, n - 1)

RECURSIVE repeat_columns(_, _, _, _, _, _)
\* The outer loop of repeat_tex: n columns rightwards from x
repeat_columns(self, x, tex_area, clipping_rect, n, per_column) ==
    IF n = 0 THEN self
    ELSE repeat_columns(repeat_column(self, x, clipping_rect[2], tex_area,
                                      clipping_rect, per_column),
                        x + tex_area[1], tex_area, clipping_rect, n - 1, per_column)

repeat_tex(self, dir, clipping_rect, tex_area) ==
    LET r == repeats(dir, clipping_rect, tex_area)
    IN repeat_columns(self, clipping_rect[1], tex_area, clipping_rect, r.h + 1, r.v + 1)

\* The characters the font texture holds infos for, of those used here
\* ("e_acute" stands for a character outside the font's list)
FontChars == {"a", "b"}

FontSize == 14

\* The width of a character of the font in pixels
CharWidth == 7

find_infos(ch) == ch \in FontChars

\* add_char: the quad of one character, or nothing when the font lacks it;
\* returns the draw list and the width added.
add_char(self, screen_pos, clipping_rect, total_text_width, ch) ==
    IF ~find_infos(ch) THEN [self |-> self, width |-> 0]
    ELSE LET sx == screen_pos[1] + total_text_width
             sy == screen_pos[2] - FontSize
         IN [self |-> add_tex_internal(self, TRUE,
                                       <<sx, sy, sx + CharWidth, sy + FontSize>>,
                                       clipping_rect),
             width |-> CharWidth]

RECURSIVE add_chars(_, _, _, _, _)
add_chars(self, screen_pos, clipping_rect, total_text_width, text) ==
    IF text = << >> THEN self
    ELSE LET r == add_char(self, screen_pos, clipping_rect, total_text_width, Head(text))
         IN add_chars(r.self, screen_pos, clipping_rect,
                      total_text_width + r.width, Tail(text))

add_string(self, screen_pos, clipping_rect, text) ==
    IF Len(text) = 0 THEN self
    ELSE add_chars(self, screen_pos, clipping_rect, 0, text)

\* render: the index range [idx_start, idx_end) sliced for each command
RECURSIVE render_ranges(_, _)
render_ranges(commands, idx_start) ==
    IF commands = << >> THEN << >>
    ELSE LET idx_end == idx_start + Head(commands).elem_count
         IN <<[idx_start |-> idx_start, idx_end |-> idx_end]>>
            \o render_ranges(Tail(commands), idx_end)

\* The number of quads in a draw list
QuadsOf(self) == Len(self.vertices) \div 4

\* The number of quads whose base index is distinct in 16 bits
U16Quads == (U16_MAX + 1) \div 4

\* The numbers of quads a frame has drawn when the insertions start
Prefills == {0, U16Quads - 1}

ClipRects == {<< >>, <<<<0, 0, 100, 100>>>>}

TexAreas == {<<128, 128>>, <<64, 128>>}

TexDirs == {"Horizontal", "Vertical", "Area"}

Texts == {<< >>, <<"a">>, <<"a", "e_acute">>, <<"a", "b">>}

\* The draw list after n calls add_tex("win", (0, 0), None, (96, 24), (16, 16))
Prefilled(n) ==
    [commands |-> IF n = 0 THEN << >>
                  ELSE <<[elem_count |-> 6 * n, is_text |-> FALSE, clip_rect |-> << >>]>>,
     vertices |-> [i \in 1..(4 * n) |-> quad_vertices(<<0, 0, 16, 16>>)[((i - 1) % 4) + 1]],
     indices |-> [j \in 1..(6 * n) |->
                     next_indices(as_u16(4 * ((j - 1) \div 6)))[((j - 1) % 6) + 1]]]

InitDraw ==
    /\ \E n \in Prefills : draw_list = Prefilled(n)
    /\ added = << >>
    /\ inserted = 0
    /\ IdleResolve
    /\ IdleEdges
    /\ InitBuilder
    /\ IdleAnim
    /\ IdleTileMap
    /\ IdleShader
    /\ IdleIter
    /\ IdleCompare
    /\ IdleList

\* An insertion that left the draw list as after, made with the command cmd
Inserted(after, cmd) ==
    LET n == QuadsOf(after) - QuadsOf(draw_list)
    IN /\ inserted + n <= MaxQuads
       /\ draw_list' = after
       /\ inserted' = inserted + n
       /\ added' = <<[cmd |-> cmd, quads |-> n]>>

AddTex ==
    \E clip_rect \in ClipRects :
        /\ Inserted(add_tex(draw_list, <<0, 0>>, clip_rect, <<16, 16>>),
                    UiDrawCmd(FALSE, clip_rect))
        /\ UNCHANGED othersOfDraw

AddTexStretch ==
    \E clip_rect \in ClipRects :
        /\ Inserted(add_tex_stretch(draw_list, <<0, 0, 32, 32>>, clip_rect),
                    UiDrawCmd(FALSE, clip_rect))
        /\ UNCHANGED othersOfDraw

RepeatTex ==
    \E dir \in TexDirs, tex_area \in TexAreas :
        /\ Inserted(repeat_tex(draw_list, dir, <<0, 0, 100, 100>>, tex_area),
                    UiDrawCmd(FALSE, <<<<0, 0, 100, 100>>>>))
        /\ UNCHANGED othersOfDraw

AddString ==
    \E clip_rect \in ClipRects, text \in Texts :
        /\ Inserted(add_string(draw_list, <<0, 14>>, clip_rect, text),
                    UiDrawCmd(TRUE, clip_rect))
        /\ UNCHANGED othersOfDraw

Clear ==
    /\ draw_list' = UiDrawList_clear(draw_list)
    /\ added' = << >>
    /\ UNCHANGED inserted
    /\ UNCHANGED othersOfDraw

NextDraw == AddTex \/ AddTexStretch \/ RepeatTex \/ AddString \/ Clear

SpecDraw == InitDraw /\ [][NextDraw]_vars

(***************************************************************************)
(* The list specification: UiList and InvLayer.                            *)
(***************************************************************************)
ItemTexts == {"Dood", "starfruit"}

RECURSIVE ItemLists(_)
\* The item lists of at most n items
ItemLists(n) ==
    IF n = 0 THEN {<< >>}
    ELSE LET shorter == ItemLists(n - 1)
         IN shorter \cup {Append(l, t) : l \in shorter, t \in ItemTexts}

\* self.items.len() - 1 in usize: the difference; with no item a panic when
\* the arithmetic is checked and usize::MAX, which no index here reaches,
\* when it wraps.
len_minus_one(len, checks) ==
    IF len > 0 THEN [kind |-> "Value", value |-> len - 1]
    ELSE IF checks THEN [kind |-> "Panic", value |-> 0]
    ELSE [kind |-> "Wrapped", value |-> 0]

UiList_new(item_list) == [items |-> item_list, selected |-> 0]

\* select_next: the new selected index, or a panic
select_next(self_items, self_selected, checks) ==
    LET last_index == len_minus_one(Len(self_items), checks)
    IN IF last_index.kind = "Panic" THEN [panicked |-> TRUE, selected |-> self_selected]
       ELSE IF last_index.kind = "Value" /\ self_selected = last_index.value
       THEN [panicked |-> FALSE, selected |-> self_selected]
       ELSE [panicked |-> FALSE, selected |-> self_selected + 1]

select_prev(self_selected) == IF self_selected = 0 THEN self_selected ELSE self_selected - 1

\* get_selected: << >> for None, <<item>> for Some(item)
get_selected(self_items, self_selected) ==
    IF self_selected < Len(self_items) THEN <<self_items[self_selected + 1]>> ELSE << >>

\* set_selected: assert!(idx < self.items.len())
set_selected(self_items, idx) ==
    IF idx < Len(self_items) THEN [panicked |-> FALSE, selected |-> idx]
    ELSE [panicked |-> TRUE, selected |-> 0]

InitList ==
    /\ \E l \in ItemLists(MaxItems) :
           /\ items = UiList_new(l).items
           /\ selected = UiList_new(l).selected
    /\ list_status = "Running"
    /\ debug_assertions \in BOOLEAN
    /\ found = << >>
    /\ IdleResolve
    /\ IdleEdges
    /\ InitBuilder
    /\ IdleAnim
    /\ IdleTileMap
    /\ IdleShader
    /\ IdleIter
    /\ IdleCompare
    /\ IdleDraw

\* InvLayer::on_event, key Down
SelectNext ==
    /\ list_status = "Running"
    /\ selected < MaxItems
    /\ LET r == select_next(items, selected, debug_assertions)
       IN /\ selected' = r.selected
          /\ list_status' = IF r.panicked THEN "Panicked" ELSE list_status
    /\ UNCHANGED <<items, debug_assertions, found>>
    /\ UNCHANGED othersOfList

\* InvLayer::on_event, key Up
SelectPrev ==
    /\ list_status = "Running"
    /\ selected' = select_prev(selected)
    /\ UNCHANGED <<items, list_status, debug_assertions, found>>
    /\ UNCHANGED othersOfList

SetSelected ==
    /\ list_status = "Running"
    /\ \E idx \in 0..MaxItems :
           LET r == set_selected(items, idx)
           IN /\ selected' = IF r.panicked THEN selected ELSE r.selected
              /\ list_status' = IF r.panicked THEN "Panicked" ELSE list_status
    /\ UNCHANGED <<items, debug_assertions, found>>
    /\ UNCHANGED othersOfList

\* InvLayer::result: self.list.get_selected().unwrap().text()
Result ==
    /\ list_status = "Running"
    /\ LET item == get_selected(items, selected)
       IN IF item = << >>
          THEN /\ list_status' = "Panicked"
               /\ found' = found
          ELSE /\ list_status' = list_status
               /\ found' = item
    /\ UNCHANGED <<items, selected, debug_assertions>>
    /\ UNCHANGED othersOfList

NextList == SelectNext \/ SelectPrev \/ SetSelected \/ Result

SpecList == InitList /\ [][NextList]_vars

(***************************************************************************)
(* Properties of the resolver, stated on the bit numbers and tile numbers   *)
(* themselves: NE=0, N=1, NW=2, E=3, W=4, SE=5, S=6, SW=7.                  *)
(***************************************************************************)
Resolved == autotile_index # << >>

HasN(m) == BitSet(m, 1)
HasS(m) == BitSet(m, 6)
HasE(m) == BitSet(m, 3)
HasW(m) == BitSet(m, 4)
HasNW(m) == BitSet(m, 2)

NoCardinal(m) == ~HasN(m) /\ ~HasS(m) /\ ~HasE(m) /\ ~HasW(m)

\* C1: for every mask 0..255 and every quadrant 0..3 the resolver returns a
\* variant index in 0..23, never the -1 sentinel.
C1_ValidVariant ==
    Resolved =>
        /\ autotile_index[1] \in 0..23
        /\ autotile_index[1] # -1

C1_Witness ==
    /\ Resolved
    /\ edges = 255
    /\ quadrant = QUAD_SE

\* C2: when none of the N, S, E, W bits is set the resolver returns 0, 1, 4, 5
\* for the quadrants NW, NE, SW, SE, whatever the diagonal bits are.
C2_Isolated ==
    (Resolved /\ NoCardinal(edges)) =>
        autotile_index[1] = <<0, 1, 4, 5>>[quadrant + 1]

\* All four diagonals set, no cardinal direction set, south-east quadrant.
C2_Witness ==
    /\ Resolved
    /\ edges = 1 + 4 + 32 + 128
    /\ quadrant = QUAD_SE
    /\ autotile_index = <<5>>

\* C3: for the NW quadrant and a mask with some cardinal bit set, the result
\* is decided by N, W and NW alone: 8 with neither N nor W, 9 with W only,
\* 12 with N only, 2 with N and W but not NW, 13 with N, W and NW.
C3_NorthWestTable ==
    (Resolved /\ quadrant = 0 /\ ~NoCardinal(edges)) =>
        autotile_index[1] =
            IF ~HasN(edges) /\ ~HasW(edges) THEN 8
            ELSE IF ~HasN(edges) /\ HasW(edges) THEN 9
            ELSE IF HasN(edges) /\ ~HasW(edges) THEN 12
            ELSE IF ~HasNW(edges) THEN 2
            ELSE 13

\* Only N and W set, NW unset: the concave corner piece.
C3_Witness ==
    /\ Resolved
    /\ quadrant = 0
    /\ edges = 2 + 16
    /\ autotile_index = <<2>>

\* The mask with the bits a and b exchanged.
SwapBits(m, a, b) ==
    m - (IF BitSet(m, a) THEN Pow2(a) ELSE 0) - (IF BitSet(m, b) THEN Pow2(b) ELSE 0)
      + (IF BitSet(m, a) THEN Pow2(b) ELSE 0) + (IF BitSet(m, b) THEN Pow2(a) ELSE 0)

\* East-west mirror: E<->W, NE<->NW, SE<->SW.
MirrorEW(m) == SwapBits(SwapBits(SwapBits(m, 3, 4), 0, 2), 5, 7)

\* North-south mirror: N<->S, NE<->SE, NW<->SW.
MirrorNS(m) == SwapBits(SwapBits(SwapBits(m, 1, 6), 0, 5), 2, 7)

CorrEW == (0 :> 1) @@ (2 :> 3) @@ (8 :> 11) @@ (9 :> 10) @@ (12 :> 15) @@ (13 :> 14)
CorrNS == (0 :> 4) @@ (2 :> 6) @@ (8 :> 20) @@ (9 :> 21) @@ (12 :> 16) @@ (13 :> 17)
CorrBoth == (0 :> 5) @@ (2 :> 7) @@ (8 :> 23) @@ (9 :> 22) @@ (12 :> 19) @@ (13 :> 18)

\* The result of the NW quadrant on mask m, sent through the correspondence.
MirrorOfNW(m, corr) ==
    LET nw == get_autotile_index(m, 0)
    IN IF nw \in DOMAIN corr THEN corr[nw] ELSE -1

\* C4: the NE, SW and SE quadrants are mirror images of the NW quadrant: the
\* result of NE on a mask is the result of NW on the east-west mirrored mask
\* under 0<->1, 2<->3, 8<->11, 9<->10, 12<->15, 13<->14, and likewise SW with
\* the north-south mirror and SE with both mirrors.
C4_Mirror ==
    Resolved =>
        /\ quadrant = 1 => autotile_index[1] = MirrorOfNW(MirrorEW(edges), CorrEW)
        /\ quadrant = 2 => autotile_index[1] = MirrorOfNW(MirrorNS(edges), CorrNS)
        /\ quadrant = 3 =>
               autotile_index[1] = MirrorOfNW(MirrorNS(MirrorEW(edges)), CorrBoth)

\* S and E set, SE unset, in the SE quadrant: the mirror of the NW concave
\* corner on the mask with N and W set.
C4_Witness ==
    /\ Resolved
    /\ quadrant = 3
    /\ edges = 64 + 8
    /\ MirrorNS(MirrorEW(edges)) = 2 + 16
    /\ autotile_index = <<7>>

(***************************************************************************)
(* Property of the adjacency computation.                                  *)
(***************************************************************************)
BitOfDirection ==
    [d \in Direction |->
        CASE d = "NE" -> 0 [] d = "N" -> 1 [] d = "NW" -> 2 [] d = "E" -> 3
          [] d = "W" -> 4 [] d = "SE" -> 5 [] d = "S" -> 6 [] d = "SW" -> 7]

SameTerrain(b, p, d) == BoardGet(b, PointAdd(p, DirOffset(d))) = BoardGet(b, p)

\* C5: get_neighboring_edges returns an 8-bit mask in which the bit of each of
\* the 8 compass directions (NE=0, N=1, NW=2, E=3, W=4, SE=5, S=6, SW=7) is set
\* exactly when the terrain at pos+d equals the terrain at pos; the eight
\* directions use eight distinct bits.
C5_NeighboringEdges ==
    res # << >> =>
        /\ res[1] \in 0..255
        /\ \A d \in Direction : BitSet(res[1], BitOfDirection[d]) <=> SameTerrain(board, pos, d)
        /\ \A d \in Direction : dir_to_bit(d) = BitOfDirection[d]
        /\ \A d1, d2 \in Direction : d1 # d2 => dir_to_bit(d1) # dir_to_bit(d2)

\* A cell whose west neighbour has its terrain and whose east neighbour has
\* not: bit 4 set, bit 3 clear.
C5_Witness ==
    /\ res # << >>
    /\ SameTerrain(board, pos, "W")
    /\ ~SameTerrain(board, pos, "E")
    /\ BitSet(res[1], 4)
    /\ ~BitSet(res[1], 3)

(***************************************************************************)
(* Properties of the atlas builder.  Pages are numbered as the code numbers *)
(* them, from 0, in creation order.                                        *)
(***************************************************************************)
Packed == last # << >>

\* The page the last packed image was recorded on.
LastPage == frames[last[1].key].texture_idx

\* The number of pages the last packed image met.
PagesMet == Len(last[1].packers)

\* The pages, among those the last packed image met, that could fit it.
PagesFitting == {p \in 0..(PagesMet - 1) : can_pack(last[1].packers[p + 1], last[1].texture)}

\* C6: add_image places a new image on the earliest-created page that can fit
\* it, and opens a new page, appended last, only when no existing page can
\* fit the image.
C6_FirstFitInCreationOrder ==
    Packed =>
        /\ PagesFitting # {} =>
               /\ LastPage \in PagesFitting
               /\ \A p \in PagesFitting : LastPage <= p
               /\ last[1].pages_after = PagesMet
        /\ PagesFitting = {} =>
               /\ LastPage = PagesMet
               /\ last[1].pages_after = PagesMet + 1

\* Two pages both have room for the image, and it went to the older one.
C6_Witness ==
    /\ Packed
    /\ PagesFitting = {0, 1}
    /\ LastPage = 0
    /\ Len(packers) = 2

\* C7, as stated: when the most recently opened page cannot fit a new image,
\* the builder tries no earlier page; it opens a new empty page and places the
\* image there.
C7_NewestPageOnly ==
    (Packed /\ (PagesMet - 1) \notin PagesFitting) =>
        /\ LastPage = PagesMet
        /\ last[1].pages_after = PagesMet + 1

\* C7, amended: when the most recently opened page cannot fit a new image, the
\* builder opens a new empty page and places the image there only if no
\* earlier page can fit it either; if an earlier page can, the image goes to
\* the earliest such page and no page is opened.
C7_NewestPageThenEarlier ==
    (Packed /\ (PagesMet - 1) \notin PagesFitting) =>
        IF PagesFitting = {}
        THEN /\ LastPage = PagesMet
             /\ last[1].pages_after = PagesMet + 1
        ELSE /\ LastPage \in PagesFitting
             /\ \A p \in PagesFitting : LastPage <= p
             /\ LastPage < PagesMet - 1
             /\ last[1].pages_after = PagesMet

\* The newest page is full, an earlier page has room, and the image went to
\* the earlier page.
C7_Witness ==
    /\ Packed
    /\ PagesMet = 2
    /\ PagesFitting = {0}
    /\ LastPage = 0
    /\ Len(packers) = 2

\* Whether two rects share some area.
Overlap(r1, r2) ==
    /\ r1.x < r2.x + r2.w
    /\ r2.x < r1.x + r1.w
    /\ r1.y < r2.y + r2.h
    /\ r2.y < r1.y + r1.h

\* C8: no two packed rects recorded for frames on the same page overlap.
C8_NoOverlap ==
    \A k1, k2 \in DOMAIN frames :
        (k1 # k2 /\ frames[k1].texture_idx = frames[k2].texture_idx) =>
            ~Overlap(frames[k1].rect, frames[k2].rect)

\* Three images on one page, one of them beside and one of them below another.
C8_Witness ==
    /\ Cardinality(DOMAIN frames) = 3
    /\ \A k \in DOMAIN frames : frames[k].texture_idx = 0
    /\ \E k \in DOMAIN frames : frames[k].rect.x > 0
    /\ \E k \in DOMAIN frames : frames[k].rect.y > 0

\* C9: every packed rect recorded in an AtlasFrame lies fully inside its page,
\* x >= 0, y >= 0, x + w <= 2048 and y + h <= 2048, every page being
\* configured 2048 x 2048 without rotation and with zero padding.
C9_InsidePage ==
    /\ \A k \in DOMAIN frames :
           /\ frames[k].rect.x >= 0
           /\ frames[k].rect.y >= 0
           /\ frames[k].rect.x + frames[k].rect.w <= 2048
           /\ frames[k].rect.y + frames[k].rect.h <= 2048
    /\ \A i \in 1..Len(packers) :
           /\ packers[i].config.max_width = 2048
           /\ packers[i].config.max_height = 2048
           /\ packers[i].config.allow_rotation = FALSE
           /\ packers[i].config.texture_padding = 0

\* A rect that reaches the right and the bottom edge of its page.
C9_Witness ==
    \E k \in DOMAIN frames :
        /\ frames[k].rect.x > 0
        /\ frames[k].rect.y > 0
        /\ frames[k].rect.x + frames[k].rect.w = 2048
        /\ frames[k].rect.y + frames[k].rect.h = 2048

Built == manager # << >>

\* The registered indices of a manager that get_tile_texture_idx puts on page p.
IndicesOnPage(m, p) ==
    {t \in DOMAIN m.locations : get_tile_texture_idx(m, t) = p}

\* C10: in a built TileManager get_tile_texture_idx assigns every registered
\* TileIndex to exactly one of the pages 0..passes()-1: the pages cover the
\* registered indices, no index is on two pages, and the indices registered
\* under one image key share a page.
C10_PagesPartitionIndices ==
    Built =>
        LET m == manager[1]
            pages == 0..(passes(m) - 1)
        IN /\ \A t \in DOMAIN m.locations : has_frame(m, t)
           /\ UNION {IndicesOnPage(m, p) : p \in pages} = DOMAIN m.locations
           /\ \A p, q \in pages :
                  p # q => IndicesOnPage(m, p) \cap IndicesOnPage(m, q) = {}
           /\ \A t, u \in DOMAIN m.locations :
                  m.locations[t] = m.locations[u] =>
                      get_tile_texture_idx(m, t) = get_tile_texture_idx(m, u)

\* A manager built with two indices on two different pages.
C10_Witness ==
    /\ Built
    /\ passes(manager[1]) = 2
    /\ IndicesOnPage(manager[1], 0) # {}
    /\ IndicesOnPage(manager[1], 1) # {}

(***************************************************************************)
(* Properties of registration.                                             *)
(***************************************************************************)
\* The descriptors of frame k that differ between two frame maps.
ChangedDescriptors(fr, fr2, k) ==
    {i \in DOMAIN fr2[k].offsets :
        i \notin DOMAIN fr[k].offsets \/ fr[k].offsets[i] # fr2[k].offsets[i]}

\* C11: add_tile loads and packs an image only on the first registration that
\* names its key.  No step moves a frame to another page or rect; a call that
\* returns and adds no frame (an add_tile with a known key) leaves the pages as
\* they are, removes no descriptor and adds or replaces at most one; and the
\* number of frames is the number of distinct keys registered.
C11_LoadOnFirstReference ==
    [][/\ \A k \in DOMAIN frames :
              /\ k \in DOMAIN frames'
              /\ frames'[k].texture_idx = frames[k].texture_idx
              /\ frames'[k].rect = frames[k].rect
       /\ (DOMAIN frames' = DOMAIN frames /\ status' = "Building") =>
              /\ packers' = packers
              /\ \A k \in DOMAIN frames :
                     DOMAIN frames[k].offsets \subseteq DOMAIN frames'[k].offsets
              /\ Cardinality(UNION {{<<k, i>> : i \in ChangedDescriptors(frames, frames', k)} :
                                       k \in DOMAIN frames}) <= 1
       /\ Cardinality(DOMAIN frames') = Cardinality(registered')]_vars

\* Two frames, one of them with two descriptors: its key was named twice, and
\* the second call found it known.
C11_Witness ==
    /\ Cardinality(DOMAIN frames) = 2
    /\ Cardinality(registered) = 2
    /\ \E k \in DOMAIN frames : Cardinality(DOMAIN frames[k].offsets) = 2

RegisteredIndices == DOMAIN locations

\* C13: a lookup of a TileIndex that was never registered, through get,
\* get_tile_texture_idx or get_texture_offset, panics and returns no page
\* index, descriptor or offset.
C13_UnregisteredLookupPanics ==
    (query # << >> /\ query[1].tile_type \notin RegisteredIndices) =>
        /\ query[1].panicked
        /\ query[1].value = << >>
        /\ status = "Panicked"

\* Every one of the three lookups can meet an unregistered index, next to a
\* registered one in the same manager.
C13_Witness ==
    /\ query # << >>
    /\ query[1].op = "get_texture_offset"
    /\ query[1].tile_type \notin RegisteredIndices
    /\ RegisteredIndices # {}

(***************************************************************************)
(* Properties of the animation.                                            *)
(***************************************************************************)
\* get_texture_offset has answered for an Animated tile whose frame_count
\* and delay are both at least 1.
AnimatedSampled(autotile) ==
    /\ anim_offset # << >>
    /\ anim_tile.tile_kind.kind = "Animated"
    /\ anim_tile.is_autotile = autotile
    /\ anim_tile.tile_kind.frame_count >= 1
    /\ anim_tile.tile_kind.delay >= 1

\* C14: for a non-autotile Animated(frame_count, delay) tile with both at
\* least 1, the column advance at time t is floor(t / delay) mod frame_count:
\* it lies in 0..frame_count-1, goes up by one (wrapping to 0) each delay, and
\* has period frame_count * delay; for frame_count 4 and delay 100 the times
\* 0, 100, 400, 450 give 0, 1, 0, 0.
C14_FrameCycling ==
    AnimatedSampled(FALSE) =>
        LET frame_count == anim_tile.tile_kind.frame_count
            delay == anim_tile.tile_kind.delay
            x == anim_offset[1].x
        IN /\ ~anim_offset[1].panicked
           /\ x \in 0..(frame_count - 1)
           /\ \E q \in 0..anim_msecs :
                  /\ q * delay <= anim_msecs
                  /\ anim_msecs < (q + 1) * delay
                  /\ x = q % frame_count
           /\ x_index_offset(anim_tile, anim_msecs + delay) = (x + 1) % frame_count
           /\ x_index_offset(anim_tile, anim_msecs + frame_count * delay) = x
           /\ (frame_count = 4 /\ delay = 100) =>
                  /\ anim_msecs = 0 => x = 0
                  /\ anim_msecs = 100 => x = 1
                  /\ anim_msecs = 400 => x = 0
                  /\ anim_msecs = 450 => x = 0

\* The fourth sample of the worked example: the cycle has wrapped once.
C14_Witness ==
    /\ AnimatedSampled(FALSE)
    /\ anim_tile.tile_kind.frame_count = 4
    /\ anim_tile.tile_kind.delay = 100
    /\ anim_msecs = 450
    /\ anim_offset[1].x = 0

\* C15, as stated: for an animated autotile the column advance is always a
\* multiple of 4, one of 0, 4, ..., 4 * (frame_count - 1), and every one of
\* these advances is taken at some time of a cycle.
C15_EveryFourthColumn ==
    AnimatedSampled(TRUE) =>
        LET frame_count == anim_tile.tile_kind.frame_count
            delay == anim_tile.tile_kind.delay
            x == anim_offset[1].x
        IN /\ x % 4 = 0
           /\ x \in {4 * k : k \in 0..(frame_count - 1)}
           /\ \A k \in 0..(frame_count - 1) :
                  \E c \in 0..(frame_count - 1) :
                      x_index_offset(anim_tile, c * delay) = 4 * k

(***************************************************************************)
(* Properties of the tile map.                                             *)
(***************************************************************************)
\* How many instances of a draw show the cell at p in quadrant q
InstancesOf(draw, p, q) ==
    Cardinality({k \in 1..Len(draw) :
                    draw[k].map_coord = <<p.x, p.y>> /\ draw[k].quadrant = q})

RECURSIVE SumLen(_)
SumLen(draws) == IF draws = << >> THEN 0 ELSE Len(Head(draws)) + SumLen(Tail(draws))

\* C16: in one render that returns, every stored cell contributes exactly 4
\* instances, one per quadrant 0..3, in exactly one pass, the page index
\* get_tile_texture_idx gives for its tile, which lies in 0..passes()-1: no
\* cell is skipped, none is drawn in two passes, and nothing else is drawn.
C16_EachCellInOnePass ==
    (instances # << >> /\ ~instances[1].panicked) =>
        LET draws == instances[1].draws
        IN /\ Len(draws) = passes(tile_manager)
           /\ SumLen(draws) = 4 * Len(map)
           /\ \A n \in 1..Len(map) :
                  LET page == get_tile_texture_idx(tile_manager, map[n].tile.idx)
                  IN /\ page \in 0..(passes(tile_manager) - 1)
                     /\ \A pass \in 0..(Len(draws) - 1), q \in 0..3 :
                            InstancesOf(draws[pass + 1], map[n].pos, q) =
                                IF pass = page THEN 1 ELSE 0

\* A board of four cells was rendered, with cells drawn in both passes.
C16_Witness ==
    /\ instances # << >>
    /\ ~instances[1].panicked
    /\ Len(map) = 4
    /\ Len(instances[1].draws) = 2
    /\ instances[1].draws[1] # << >>
    /\ instances[1].draws[2] # << >>

\* C17: after update(board) the map holds exactly one descriptor per cell of
\* that board, width * height of them, each with the tile index and the
\* adjacency mask the board gives for its position; whatever updates came
\* before, the descriptors are those of the last board alone.
C17_MapOfLastBoard ==
    /\ given = << >> => map = << >>
    /\ given # << >> =>
           LET b == given[1]
           IN /\ Len(map) = Cardinality(DOMAIN b)
              /\ Len(map) = width(b) * height(b)
              /\ \A p \in DOMAIN b :
                     \E n \in 1..Len(map) :
                         /\ map[n].pos = p
                         /\ map[n].tile.idx = Terrain_n(b[p])
                         /\ map[n].tile.edges = get_neighboring_edges(b, p)
                         /\ \A k \in 1..Len(map) : map[k].pos = p => k = n
              /\ map = make_map(b)

\* The map of a board of two columns and two rows holding both terrains.
C17_Witness ==
    /\ given # << >>
    /\ Cardinality(DOMAIN given[1]) = 4
    /\ {given[1][p] : p \in DOMAIN given[1]} = BoardTerrains
    /\ Len(map) = 4
    /\ instances # << >>

(***************************************************************************)
(* Properties of a failing registration.                                   *)
(***************************************************************************)
\* An image that cannot be decoded, or is larger than a page in either axis
BadImage(t) == ~t.ok \/ t.w > MAX_WIDTH \/ t.h > MAX_HEIGHT

\* C18: a registration whose image cannot be decoded, or is larger than the
\* maximum page size in either axis, panics: the image is never packed, the
\* failed key enters neither frames nor locations, and since nothing runs
\* after the panic no TileManager is built that holds the other tiles
\* without the failed one.
C18_FailureAborts ==
    [][/\ status = "Building"
       /\ last' # last => ~BadImage(last'[1].texture)
       /\ registered' # registered => failed' = << >>
       /\ failed' # failed =>
              /\ status' = "Panicked"
              /\ BadImage(failed'[1].texture)
              /\ failed'[1].key \notin DOMAIN frames'
              /\ \A t \in DOMAIN locations' : locations'[t] # failed'[1].key
              /\ locations' = locations
              /\ DOMAIN frames' = DOMAIN frames
              /\ manager' = manager
              /\ (manager' # << >> => failed'[1].key \notin DOMAIN manager'[1].frames)]_vars

\* An oversized image failed after another image had been registered.
C18_Witness ==
    /\ failed # << >>
    /\ failed[1].texture.ok
    /\ failed[1].texture.w > MAX_WIDTH
    /\ DOMAIN frames # {}
    /\ status = "Panicked"

(***************************************************************************)
(* Property of the shader reload.                                          *)
(***************************************************************************)
\* C19, as stated: when a shader reload fails, refresh_shaders leaves the
\* previously loaded program in place and does not crash; the program is
\* replaced only when the reload succeeds.
C19_FailedReloadKeepsProgram ==
    reloaded # << >> =>
        /\ reloaded[1].outcome # "Ok" =>
               /\ program = reloaded[1].previous
               /\ bg_status = "Running"
        /\ program # reloaded[1].previous => reloaded[1].outcome = "Ok"

(***************************************************************************)
(* Property of the rectangle iterator.                                     *)
(***************************************************************************)
\* The n-th point of the rectangle in row-major order, n from 1
RowMajor(top_left, bottom_right, n) ==
    LET w == bottom_right.x - top_left.x + 1
    IN [x |-> top_left.x + ((n - 1) % w), y |-> top_left.y + ((n - 1) \div w)]

\* C20, as stated: RectangleIter::new(top_left, bottom_right) with
\* top_left <= bottom_right in both coordinates yields every point of the
\* inclusive rectangle exactly once, rows by ascending y and x ascending
\* within a row, and after the last point returns None forever.
C20_RowMajorOnce ==
    LET w == iter.bottom_right.x - iter.top_left.x + 1
        h == iter.bottom_right.y - iter.top_left.y + 1
    IN /\ Len(yielded) <= w * h
       /\ \A n \in 1..Len(yielded) :
              yielded[n] = RowMajor(iter.top_left, iter.bottom_right, n)
       /\ returned # << >> =>
              /\ returned[1] # "Panic"
              /\ returned[1] = "None" => Len(yielded) = w * h
              /\ iter.done <=> Len(yielded) = w * h

(***************************************************************************)
(* Property of the border iterator.                                        *)
(***************************************************************************)
\* The points of the border of the rectangle, in row-major order
BorderPoints(top_left, bottom_right) ==
    LET w == bottom_right.x - top_left.x + 1
        h == bottom_right.y - top_left.y + 1
        all == [n \in 1..(w * h) |-> RowMajor(top_left, bottom_right, n)]
        on_border(p) == \/ p.x = top_left.x \/ p.x = bottom_right.x
                        \/ p.y = top_left.y \/ p.y = bottom_right.y
    IN SelectSeq(all, on_border)

\* C21, as stated: BorderIter::new(top_left, bottom_right) with
\* top_left <= bottom_right yields exactly the border points of the inclusive
\* rectangle, each once, in row-major order, and then ends, also for a
\* rectangle of a single column or a single row.
C21_BorderOnce ==
    LET expected == BorderPoints(iter.top_left, iter.bottom_right)
    IN /\ Len(yielded) <= Len(expected)
       /\ \A n \in 1..Len(yielded) : n <= Len(expected) => yielded[n] = expected[n]
       /\ returned # << >> =>
              /\ returned[1] # "Panic"
              /\ returned[1] = "None" => yielded = expected
              /\ iter.done <=> yielded = expected

(***************************************************************************)
(* Properties of the square iterator.                                      *)
(***************************************************************************)
\* The centre a SquareIter was made for
CenterOf(self) == [x |-> self.min_x + self.radius, y |-> self.max.y - self.radius]

\* The iteration has come to its end.
Ended == returned # << >> /\ returned[1] = "None"

RhsCoords ==
    IF cmp_rhs.kind = "Tuple" THEN cmp_rhs.val ELSE <<cmp_rhs.val.x, cmp_rhs.val.y>>

\* C24: Point comparison is component-wise: p < q iff both coordinates are <,
\* and likewise for <=, > and >=, so that (1,0) and (0,1) are neither > nor >=
\* each other; the same holds against an (i32, i32) tuple, and
\* pos >= (0,0) && pos < (w,h) is true exactly when 0 <= x < w and 0 <= y < h.
C24_ComponentWise ==
    cmp_result # << >> =>
        LET p == <<cmp_lhs.x, cmp_lhs.y>>
            q == RhsCoords
            r == cmp_result[1]
        IN /\ r.lt <=> \A i \in 1..2 : p[i] < q[i]
           /\ r.le <=> \A i \in 1..2 : p[i] <= q[i]
           /\ r.gt <=> \A i \in 1..2 : p[i] > q[i]
           /\ r.ge <=> \A i \in 1..2 : p[i] >= q[i]
           /\ ({p, q} = {<<1, 0>>, <<0, 1>>}) => (~r.gt /\ ~r.ge /\ ~r.lt /\ ~r.le)
           /\ r.within <=> (0 <= p[1] /\ p[1] < q[1] /\ 0 <= p[2] /\ p[2] < q[2])

\* (1, 0) was compared with the tuple (0, 1): neither greater nor less.
C24_Witness ==
    /\ cmp_result # << >>
    /\ cmp_lhs = [x |-> 1, y |-> 0]
    /\ cmp_rhs = [kind |-> "Tuple", val |-> <<0, 1>>]
    /\ ~cmp_result[1].gt
    /\ ~cmp_result[1].ge

(***************************************************************************)
(* Property of re-registering a tile index under another key.              *)
(***************************************************************************)
\* The frames whose offsets keep a descriptor for the index
FramesHolding(index) == {k \in DOMAIN frames : index \in DOMAIN frames[k].offsets}

\* C25: after any sequence of add_tile calls, re-registrations under a
\* different key included, each registered TileIndex appears in the offsets of
\* exactly one AtlasFrame, the one named by locations[index]; no other frame
\* keeps a descriptor for it.
C25_OneFramePerIndex ==
    status = "Building" =>
        \A index \in DOMAIN locations : FramesHolding(index) = {locations[index]}

(***************************************************************************)
(* Properties of the UI draw list.                                         *)
(***************************************************************************)
RECURSIVE SumElemCount(_)
SumElemCount(commands) ==
    IF commands = << >> THEN 0
    ELSE Head(commands).elem_count + SumElemCount(Tail(commands))

\* The commands' elem_count add up to the number of indices, which is 6 per
\* 4 vertices, and the ranges render slices are consecutive and end at the end
\* of the index buffer.
DrawListCovered ==
    LET ranges == render_ranges(draw_list.commands, 0)
    IN /\ SumElemCount(draw_list.commands) = Len(draw_list.indices)
       /\ Len(draw_list.indices) = 6 * QuadsOf(draw_list)
       /\ Len(draw_list.vertices) = 4 * QuadsOf(draw_list)
       /\ \A i \in 1..Len(ranges) :
              /\ ranges[i].idx_start = (IF i = 1 THEN 0 ELSE ranges[i - 1].idx_end)
              /\ ranges[i].idx_end <= Len(draw_list.indices)
       /\ ranges # << >> => ranges[Len(ranges)].idx_end = Len(draw_list.indices)
       /\ ranges = << >> => draw_list.indices = << >>

\* An insertion of n quads adds 6 n indices and 4 n vertices; its commands are
\* merged into the last command when is_text and clip_rect are both equal to
\* its own, and pushed as one new command otherwise.
InsertionMerges ==
    (added' # << >> /\ draw_list' # draw_list) =>
        LET cmd == added'[1].cmd
            n == added'[1].quads
            before == draw_list.commands
            after == draw_list'.commands
            equal == /\ before # << >>
                     /\ before[Len(before)].is_text = cmd.is_text
                     /\ before[Len(before)].clip_rect = cmd.clip_rect
        IN /\ Len(draw_list'.indices) = Len(draw_list.indices) + 6 * n
           /\ Len(draw_list'.vertices) = Len(draw_list.vertices) + 4 * n
           /\ equal => after = [before EXCEPT ![Len(before)].elem_count = @ + 6 * n]
           /\ ~equal => after = Append(before, [cmd EXCEPT !.elem_count = 6 * n])

\* C26: after any sequence of quad insertions (add_tex, add_tex_stretch,
\* repeat_tex, add_string) and clear calls, the sum of elem_count over the
\* draw commands equals the number of indices, with 6 indices and 4 vertices
\* per quad, so the ranges sliced by render cover the index buffer exactly;
\* add_command merges into the last command only when is_text and clip_rect
\* are both equal.
C26_DrawListCovered == []DrawListCovered /\ [][InsertionMerges]_vars

\* A text quad with a clip rectangle was pushed as a second command after an
\* unclipped one, and render slices two ranges.
C26_Witness ==
    /\ Len(draw_list.commands) = 2
    /\ draw_list.commands[1].is_text = draw_list.commands[2].is_text
    /\ draw_list.commands[1].clip_rect # draw_list.commands[2].clip_rect
    /\ render_ranges(draw_list.commands, 0)[2].idx_end = Len(draw_list.indices)

\* C27: every index of the draw list refers to an existing vertex, and the six
\* indices of each quad refer to that quad's own four vertices, for any number
\* of quads between two clears, more than 16384 included.
C27_OwnVertices ==
    \A q \in 0..(QuadsOf(draw_list) - 1) :
        \A k \in 1..6 :
            LET index == draw_list.indices[6 * q + k]
            IN /\ index < Len(draw_list.vertices)
               /\ index = 4 * q + next_indices(0)[k]

(***************************************************************************)
(* Property of the selection of a UiList.                                  *)
(***************************************************************************)
\* C28: after any sequence of select_next, select_prev and set_selected calls
\* the selected index is the index of an existing item
\* (0 <= selected < items.len()), so InvLayer::result always finds a selected
\* item; this holds for every item list, an empty one included, and no call
\* panics.
C28_SelectedExists ==
    /\ list_status # "Panicked"
    /\ 0 <= selected
    /\ selected < Len(items)
    /\ get_selected(items, selected) # << >>

====
